---- MODULE Spec2Model ----
(***************************************************************************)
(* KeyWrit license validation: decodeJWT, verifySignature,                *)
(* checkRevocation, the three claim validators and                        *)
(* LicenseValidator.performValidation, as a state machine over validate() *)
(* calls on one validator instance.                                       *)
(***************************************************************************)
EXTENDS Integers, Sequences, FiniteSets, TLC

(***************************************************************************)
(* JSON / JavaScript values.  Every value is a record with a type tag t;  *)
(* tags are always compared before payload fields.                        *)
(***************************************************************************)
Undef == [t |-> "undefined"]
Null == [t |-> "null"]
Num(n) == [t |-> "number", n |-> n]
Str(s) == [t |-> "string", s |-> s]
Arr(a) == [t |-> "array", a |-> a]
Obj(f) == [t |-> "object", f |-> f]
Bool(b) == [t |-> "boolean", b |-> b]

\* JavaScript ToBoolean, as used by `payload.jti && ...`, `payload.aud ? ...`
Truthy(v) ==
  CASE v.t = "undefined" -> FALSE
    [] v.t = "null" -> FALSE
    [] v.t = "number" -> v.n # 0
    [] v.t = "string" -> v.s # ""
    [] v.t = "boolean" -> v.b
    [] OTHER -> TRUE

\* v ?? d
Coalesce(v, d) == IF v.t \in {"undefined", "null"} THEN d ELSE v

\* SameValueZero on primitives (Array.prototype.includes); two distinct
\* parsed arrays / objects are never the same reference.
SameValueZero(a, b) ==
  /\ a.t = b.t
  /\ CASE a.t = "string" -> a.s = b.s
       [] a.t = "number" -> a.n = b.n
       [] a.t \in {"undefined", "null"} -> TRUE
       [] OTHER -> FALSE

\* arr.includes(v) for a JavaScript array arr
ArrIncludes(arr, v) == \E i \in DOMAIN arr.a : SameValueZero(arr.a[i], v)

\* Property read o.k on a non-null value: own field of a parsed object,
\* undefined on arrays and primitives (for the field names used here).
Get(o, k) == IF o.t = "object" /\ k \in DOMAIN o.f THEN o.f[k] ELSE Undef

\* `${v}` for the values interpolated into decode error messages
Interp(v) ==
  CASE v.t = "string" -> v.s
    [] v.t = "number" -> ToString(v.n)
    [] v.t = "undefined" -> "undefined"
    [] v.t = "null" -> "null"
    [] OTHER -> "[object]"

\* String.prototype.includes over a message held as a sequence of words:
\* the searched keywords are single lower-case words, matching is
\* case-sensitive.
MsgIncludes(msg, w) == \E i \in DOMAIN msg : msg[i] = w

(***************************************************************************)
(* Program constants                                                       *)
(***************************************************************************)
KEYWRIT_ISSUER == "keywrit"
SUPPORTED_VERSIONS == <<1>>
SIGNATURE_LENGTH == 64
DEFAULT_CLOCK_SKEW == 60
EXPIRING_SOON_THRESHOLD == 7 * 24 * 60 * 60

(***************************************************************************)
(* Token segments.  A segment is a base64url string: it either contains   *)
(* a character outside the alphabet (b64 = FALSE), or decodes to bytes    *)
(* that are a JSON text (json = TRUE, val the parsed value) or raw bytes  *)
(* of length len produced by signing the token with key `signer`.         *)
(***************************************************************************)
BadSeg == [b64 |-> FALSE, json |-> FALSE, val |-> Undef, len |-> 0, signer |-> "none"]
JsonSeg(v) == [b64 |-> TRUE, json |-> TRUE, val |-> v, len |-> 2, signer |-> "none"]
RawSeg(n, k) == [b64 |-> TRUE, json |-> FALSE, val |-> Undef, len |-> n, signer |-> k]

\* base64url decode(): throws on a character outside the alphabet
base64urlDecode(seg) ==
  IF seg.b64 THEN [threw |-> FALSE, bytes |-> seg] ELSE [threw |-> TRUE, bytes |-> seg]

\* JSON.parse(decodeString(seg)): throws on bad base64url or bad JSON text
ParseSegment(seg) ==
  IF base64urlDecode(seg).threw \/ ~seg.json
  THEN [threw |-> TRUE, val |-> Undef]
  ELSE [threw |-> FALSE, val |-> seg.val]

\* decodeJWT: k = "ok" with data, k = "err" with the error message,
\* k = "throw" when a TypeError escapes (property read on null).
decodeJWT(token) ==
  LET parts == token
      fail(msg) == [k |-> "err", error |-> msg]
  IN
  IF Len(parts) # 3
  THEN fail(<<"Invalid", "token", "structure", "expected", "3", "parts", "got", ToString(Len(parts))>>)
  ELSE
    LET hp == ParseSegment(parts[1])
        header == hp.val
        pp == ParseSegment(parts[2])
        payload == pp.val
        sp == base64urlDecode(parts[3])
        signature == sp.bytes
    IN
    IF hp.threw THEN fail(<<"Failed", "to", "decode", "header">>)
    ELSE IF header.t = "null" THEN [k |-> "throw"]
    ELSE IF ~(Get(header, "alg").t = "string" /\ Get(header, "alg").s = "EdDSA")
      THEN fail(<<"Invalid", "algorithm", "expected", "EdDSA", "got", Interp(Get(header, "alg"))>>)
    ELSE IF ~(Get(header, "typ").t = "string" /\ Get(header, "typ").s = "JWT")
      THEN fail(<<"Invalid", "type", "expected", "JWT", "got", Interp(Get(header, "typ"))>>)
    ELSE IF Get(header, "kwv").t = "undefined"
      THEN fail(<<"Missing", "KeyWrit", "version", "(kwv)", "in", "header">>)
    ELSE IF ~ArrIncludes(Arr([i \in DOMAIN SUPPORTED_VERSIONS |-> Num(SUPPORTED_VERSIONS[i])]),
                         Get(header, "kwv"))
      THEN fail(<<"Unsupported", "KeyWrit", "version", Interp(Get(header, "kwv")),
                  "Supported", "versions", "1">>)
    ELSE IF pp.threw THEN fail(<<"Failed", "to", "decode", "payload">>)
    ELSE IF ~(payload.t \in {"object", "array"})
      THEN fail(<<"Payload", "must", "be", "a", "JSON", "object">>)
    ELSE IF sp.threw THEN fail(<<"Failed", "to", "decode", "signature">>)
    ELSE IF signature.len # SIGNATURE_LENGTH
      THEN fail(<<"Invalid", "signature", "length", "expected", "64", "bytes", "got",
                  ToString(signature.len)>>)
    ELSE [k |-> "ok",
          data |-> [header |-> header, payload |-> payload, signature |-> signature,
                    signingInput |-> <<parts[1], parts[2]>>]]

\* decodePayload: the permissive payload-only decode; Undef stands for null
decodePayload(token) ==
  IF Len(token) # 3 THEN Undef
  ELSE LET pp == ParseSegment(token[2])
       IN IF pp.threw THEN Undef
          ELSE IF ~(pp.val.t \in {"object", "array"}) THEN Undef
          ELSE pp.val

(***************************************************************************)
(* Signature verification                                                  *)
(***************************************************************************)
\* crypto/ed25519.ts verify(): a signature verifies under exactly the key
\* that produced it over the signing input; any internal exception is
\* folded into FALSE.
ed25519Verify(signature, message, publicKey) ==
  /\ signature.signer # "none"
  /\ signature.signer = publicKey

verifySignature(decoded, publicKey) ==
  IF ~ed25519Verify(decoded.signature, decoded.signingInput, publicKey)
  THEN [success |-> FALSE,
        error |-> [code |-> "SIGNATURE_VERIFICATION_FAILED",
                   message |-> <<"JWT", "signature", "verification", "failed">>,
                   details |-> Undef]]
  ELSE [success |-> TRUE]

(***************************************************************************)
(* Error constructors (errors.ts)                                          *)
(***************************************************************************)
createError(code, message) == [code |-> code, message |-> message, details |-> Undef]
malformedToken(reason) == createError("MALFORMED_TOKEN", <<"Malformed", "token:">> \o reason)
invalidHeader(reason) == createError("INVALID_HEADER", <<"Invalid", "header:">> \o reason)
invalidPayload(reason) == createError("INVALID_PAYLOAD", <<"Invalid", "payload:">> \o reason)

\* performValidation, lines 64-85: the decode error message is classified
\* by substring search into an error code.
ClassifyDecodeError(errorMessage) ==
  IF MsgIncludes(errorMessage, "structure") THEN malformedToken(errorMessage)
  ELSE IF \/ MsgIncludes(errorMessage, "algorithm")
          \/ MsgIncludes(errorMessage, "type")
          \/ MsgIncludes(errorMessage, "version")
          \/ MsgIncludes(errorMessage, "kwv")
    THEN invalidHeader(errorMessage)
  ELSE IF MsgIncludes(errorMessage, "payload") \/ MsgIncludes(errorMessage, "header")
    THEN invalidPayload(errorMessage)
  ELSE malformedToken(errorMessage)

(***************************************************************************)
(* Revocation                                                              *)
(***************************************************************************)
\* revocationList.<field>?.includes(v): "throw" when the field is neither
\* nullish nor an array (includes is not a function on a number/object).
ListFieldIncludes(list, field, v) ==
  LET fld == Get(list, field) IN
  CASE fld.t \in {"undefined", "null"} -> [threw |-> FALSE, hit |-> FALSE]
    [] fld.t = "array" -> [threw |-> FALSE, hit |-> ArrIncludes(fld, v)]
    [] OTHER -> [threw |-> TRUE, hit |-> FALSE]

\* checkRevocation, lines 192-214, once the list in use is known.
\* k = "null" (not revoked), "err" (TOKEN_REVOKED) or "throw".
RevocationDecision(payload, revocationList) ==
  LET jti == Get(payload, "jti")
      sub == Get(payload, "sub")
      byJti == ListFieldIncludes(revocationList, "jti", jti)
      bySub == ListFieldIncludes(revocationList, "sub", sub)
  IN
  IF ~Truthy(revocationList) THEN [k |-> "null"]
  ELSE IF Truthy(jti) /\ byJti.threw THEN [k |-> "throw"]
  ELSE IF Truthy(jti) /\ byJti.hit
    THEN [k |-> "err",
          error |-> [code |-> "TOKEN_REVOKED",
                     message |-> <<"Token", "has", "been", "revoked", "(jti:", Interp(jti)>>,
                     details |-> [jti |-> jti, reason |-> "jti_revoked"]]]
  ELSE IF Truthy(sub) /\ bySub.threw THEN [k |-> "throw"]
  ELSE IF Truthy(sub) /\ bySub.hit
    THEN [k |-> "err",
          error |-> [code |-> "TOKEN_REVOKED",
                     message |-> <<"Subject", "has", "been", "revoked", "(sub:", Interp(sub)>>,
                     details |-> [sub |-> sub, reason |-> "sub_revoked"]]]
  ELSE [k |-> "null"]

\* fetchRevocationList without the response.ok test
FetchedListIgnoresStatus(outcome) ==
  IF outcome.k \in {"ok", "notok"} THEN outcome.body ELSE Null

\* fetchRevocationList, lines 225-233: the list a fetch outcome yields;
\* Null for a thrown fetch, a non-ok status or an unparseable body.
FetchedList(outcome) ==
  IF outcome.k = "ok" THEN outcome.body ELSE Null

(***************************************************************************)
(* Time utilities (utils/time.ts)                                          *)
(***************************************************************************)
\* isPast with the boundary included
isPastInclusive(timestamp, time, clockSkew) == timestamp <= time - clockSkew

isPast(timestamp, time, clockSkew) == timestamp < time - clockSkew
\* isFuture with the boundary included
isFutureInclusive(timestamp, time, clockSkew) == timestamp >= time + clockSkew

isFuture(timestamp, time, clockSkew) == timestamp > time + clockSkew
\* isExpiringSoon with the threshold excluded
isExpiringSoonExclusive(exp, time) ==
  LET remaining == exp - time IN remaining > 0 /\ remaining < EXPIRING_SOON_THRESHOLD

isExpiringSoon(exp, time) ==
  LET remaining == exp - time IN remaining > 0 /\ remaining <= EXPIRING_SOON_THRESHOLD

formatDuration(seconds) ==
  LET absSeconds == IF seconds < 0 THEN -seconds ELSE seconds
      plural(n, unit) == <<ToString(n), IF n # 1 THEN unit \o "s" ELSE unit>>
  IN
  IF absSeconds < 60 THEN plural(absSeconds, "second")
  ELSE IF absSeconds < 3600 THEN plural(absSeconds \div 60, "minute")
  ELSE IF absSeconds < 86400 THEN plural(absSeconds \div 3600, "hour")
  ELSE plural(absSeconds \div 86400, "day")

(***************************************************************************)
(* Claim validators                                                        *)
(***************************************************************************)
\* lines 73-83 with the warning branch not exclusive of the error branch
NoExpirationOutcomeBoth(allowNoExpiration) ==
  [errors |-> IF ~allowNoExpiration
              THEN << [code |-> "EXPIRATION_REQUIRED",
                       message |-> <<"Token", "must", "have", "an", "expiration", "time">>,
                       details |-> Undef] >>
              ELSE <<>>,
   warnings |-> << [code |-> "NO_EXPIRATION",
                    message |-> <<"Token", "has", "no", "expiration", "time">>,
                    details |-> Undef] >>]

\* validateTimingClaims lines 73-83: the token has no exp claim
NoExpirationOutcome(allowNoExpiration) ==
  IF ~allowNoExpiration
  THEN [errors |-> << [code |-> "EXPIRATION_REQUIRED",
                       message |-> <<"Token", "must", "have", "an", "expiration", "time">>,
                       details |-> Undef] >>,
        warnings |-> <<>>]
  ELSE [errors |-> <<>>,
        warnings |-> << [code |-> "NO_EXPIRATION",
                         message |-> <<"Token", "has", "no", "expiration", "time">>,
                         details |-> Undef] >>]

\* validateTimingClaims lines 41-72: the token has an exp claim
ExpirationOutcome(exp, currentTime, clockSkew) ==
  LET expired ==
        IF isPast(exp, currentTime, clockSkew)
        THEN << [code |-> "TOKEN_EXPIRED",
                 message |-> <<"Token", "expired">> \o formatDuration(currentTime - exp)
                             \o <<"ago">>,
                 details |-> [exp |-> exp, currentTime |-> currentTime]] >>
        ELSE <<>>
      soon ==
        IF ~isPast(exp, currentTime, clockSkew) /\ isExpiringSoon(exp, currentTime)
        THEN << [code |-> "EXPIRING_SOON",
                 message |-> <<"Token", "expires", "in">> \o formatDuration(exp - currentTime),
                 details |-> [exp |-> exp, secondsRemaining |-> exp - currentTime]] >>
        ELSE <<>>
      skewed ==
        IF clockSkew > 0 /\ exp < currentTime /\ exp >= currentTime - clockSkew
        THEN << [code |-> "CLOCK_SKEW_APPLIED",
                 message |-> <<"Token", "accepted", "within", "clock", "skew",
                               "tolerance", ToString(clockSkew)>>,
                 details |-> [clockSkew |-> clockSkew]] >>
        ELSE <<>>
  IN [errors |-> expired, warnings |-> soon \o skewed]

\* validateTimingClaims lines 85-99
NotBeforeOutcome(nbf, currentTime, clockSkew) ==
  IF nbf.t # "undefined" /\ isFuture(nbf.n, currentTime, clockSkew)
  THEN << [code |-> "TOKEN_NOT_YET_VALID",
           message |-> <<"Token", "not", "valid", "for", "another">>
                       \o formatDuration(nbf.n - currentTime),
           details |-> [nbf |-> nbf.n, currentTime |-> currentTime]] >>
  ELSE <<>>

\* validateTimingClaims reading now() even when options.currentTime is given
validateTimingClaimsWallClock(payload, timing, allowNoExpirationArg, clock) ==
  LET options == IF timing.t = "undefined" THEN Obj(<<>>) ELSE timing
      allowNoExpiration == IF allowNoExpirationArg.t = "undefined"
                           THEN FALSE ELSE Truthy(allowNoExpirationArg)
      clockSkew == Coalesce(Get(options, "clockSkew"), Num(DEFAULT_CLOCK_SKEW)).n
      currentTime == clock
      exp == Get(payload, "exp")
      expOutcome == IF exp.t # "undefined"
                    THEN ExpirationOutcome(exp.n, currentTime, clockSkew)
                    ELSE NoExpirationOutcome(allowNoExpiration)
  IN [errors |-> expOutcome.errors
                 \o NotBeforeOutcome(Get(payload, "nbf"), currentTime, clockSkew),
      warnings |-> expOutcome.warnings]

\* validateTimingClaims(payload, options = {}, allowNoExpiration = false);
\* wallClock is what now() returns when options.currentTime is not given.
validateTimingClaims(payload, timing, allowNoExpirationArg, clock) ==
  LET options == IF timing.t = "undefined" THEN Obj(<<>>) ELSE timing
      allowNoExpiration == IF allowNoExpirationArg.t = "undefined"
                           THEN FALSE ELSE Truthy(allowNoExpirationArg)
      clockSkew == Coalesce(Get(options, "clockSkew"), Num(DEFAULT_CLOCK_SKEW)).n
      currentTime == Coalesce(Get(options, "currentTime"), Num(clock)).n
      exp == Get(payload, "exp")
      expOutcome == IF exp.t # "undefined"
                    THEN ExpirationOutcome(exp.n, currentTime, clockSkew)
                    ELSE NoExpirationOutcome(allowNoExpiration)
  IN [errors |-> expOutcome.errors
                 \o NotBeforeOutcome(Get(payload, "nbf"), currentTime, clockSkew),
      warnings |-> expOutcome.warnings]

\* validateInternalClaims(payload, realm)
validateInternalClaims(payload, realm) ==
  LET iss == Get(payload, "iss")
      aud == Get(payload, "aud")
      actualAuds == IF Truthy(aud)
                    THEN (IF aud.t = "array" THEN aud ELSE Arr(<<aud>>))
                    ELSE Arr(<<>>)
      issErrors ==
        IF ~(iss.t = "string" /\ iss.s = KEYWRIT_ISSUER)
        THEN << [code |-> "INVALID_ISSUER",
                 message |-> <<"Invalid", "issuer", "expected", KEYWRIT_ISSUER, "got",
                               Interp(Coalesce(iss, Str("(none)")))>>,
                 details |-> [expected |-> KEYWRIT_ISSUER, actual |-> iss]] >>
        ELSE <<>>
      audErrors ==
        IF ~ArrIncludes(actualAuds, Str(realm))
        THEN << [code |-> "INVALID_AUDIENCE",
                 message |-> <<"Token", "not", "authorized", "for", "this", "realm", realm>>,
                 details |-> [expectedRealm |-> realm, actualAudience |-> actualAuds]] >>
        ELSE <<>>
  IN [errors |-> issErrors \o audErrors]

\* The errors pushed for the entries of a requirement list found missing,
\* in list order
MissingErrors(missing, code, word) ==
  [i \in DOMAIN missing |->
     [code |-> code,
      message |-> <<"Missing", "required", word, Interp(missing[i])>>,
      details |-> [required |-> missing[i]]]]

\* Properties every parsed object and array inherits from Object.prototype
ObjectPrototypeKeys ==
  {"constructor", "hasOwnProperty", "isPrototypeOf", "propertyIsEnumerable",
   "toLocaleString", "toString", "valueOf", "__proto__",
   "__defineGetter__", "__defineSetter__", "__lookupGetter__", "__lookupSetter__"}

\* `k in o` for a parsed object or array o: own properties and inherited
\* ones alike (of Array.prototype only length and the indices are listed)
HasProperty(o, k) ==
  \/ k \in ObjectPrototypeKeys
  \/ o.t = "object" /\ k \in DOMAIN o.f
  \/ o.t = "array" /\ (k = "length" \/ \E i \in DOMAIN o.a : k = ToString(i - 1))

\* validateClaimMatchers(payload, options); threw = TRUE when a TypeError
\* escapes (flags.includes on a non-array, `in` on a primitive).
validateClaimMatchers(payload, options) ==
  LET requiredFlags == options.requiredFlags
      requiredKind == options.requiredKind
      requiredFeatures == options.requiredFeatures
      checkFlags == Truthy(requiredFlags) /\ Len(requiredFlags.a) > 0
      licenseFlags == Coalesce(Get(payload, "flags"), Arr(<<>>))
      flagsThrow == checkFlags /\ licenseFlags.t # "array"
      flagErrors ==
        IF checkFlags /\ ~flagsThrow
        THEN MissingErrors(SelectSeq(requiredFlags.a,
                                     LAMBDA f : ~ArrIncludes(licenseFlags, f)),
                           "MISSING_REQUIRED_FLAG", "flag")
        ELSE <<>>
      kind == Get(payload, "kind")
      kindErrors ==
        IF requiredKind.t # "undefined"
           /\ ~(kind.t = "string" /\ kind.s = requiredKind.s)
        THEN << [code |-> "KIND_MISMATCH",
                 message |-> <<"Kind", "mismatch", "expected", requiredKind.s, "got",
                               Interp(Coalesce(kind, Str("(none)")))>>,
                 details |-> [requiredKind |-> requiredKind.s, actualKind |-> kind]] >>
        ELSE <<>>
      checkFeatures == Truthy(requiredFeatures) /\ Len(requiredFeatures.a) > 0
      licenseFeatures == Coalesce(Get(payload, "features"), Obj(<<>>))
      featuresThrow == checkFeatures /\ ~(licenseFeatures.t \in {"object", "array"})
      featureErrors ==
        IF checkFeatures /\ ~featuresThrow
        THEN MissingErrors(SelectSeq(requiredFeatures.a,
                                     LAMBDA f : ~HasProperty(licenseFeatures, f.s)),
                           "MISSING_REQUIRED_FEATURE", "feature")
        ELSE <<>>
  IN [threw |-> flagsThrow \/ featuresThrow,
      errors |-> flagErrors \o kindErrors \o featureErrors,
      warnings |-> <<>>]

(***************************************************************************)
(* performValidation, lines 125-172: claim evaluation and the final result *)
(***************************************************************************)
\* lines 157-172: `allErrors.length > 1` typed where `> 0` is meant
BuildResultOffByOne(allErrors, allWarnings, payload) ==
  IF Len(allErrors) > 1
  THEN [valid |-> FALSE,
        error |-> allErrors[1],
        errors |-> Arr(allErrors),
        unverifiedPayload |-> payload]
  ELSE [valid |-> TRUE,
        license |-> payload,
        warnings |-> IF Len(allWarnings) > 0 THEN Arr(allWarnings) ELSE Undef]

\* lines 157-172: the primary error taken from the end of the list
BuildResultLastError(allErrors, allWarnings, payload) ==
  IF Len(allErrors) > 0
  THEN [valid |-> FALSE,
        error |-> allErrors[Len(allErrors)],
        errors |-> IF Len(allErrors) > 1 THEN Arr(allErrors) ELSE Undef,
        unverifiedPayload |-> payload]
  ELSE [valid |-> TRUE,
        license |-> payload,
        warnings |-> IF Len(allWarnings) > 0 THEN Arr(allWarnings) ELSE Undef]

\* lines 157-172: failure when any error was collected, else success
BuildResult(allErrors, allWarnings, payload) ==
  IF Len(allErrors) > 0
  THEN [valid |-> FALSE,
        error |-> allErrors[1],
        errors |-> IF Len(allErrors) > 1 THEN Arr(allErrors) ELSE Undef,
        unverifiedPayload |-> payload]
  ELSE [valid |-> TRUE,
        license |-> payload,
        warnings |-> IF Len(allWarnings) > 0 THEN Arr(allWarnings) ELSE Undef]

\* lines 125-155 with each check run only when the earlier ones found
\* nothing
EvaluateClaimsResultShortCircuit(payload, cfg, clock) ==
  LET internalResult == validateInternalClaims(payload, cfg.realm)
      timingResult == validateTimingClaims(payload, cfg.timing,
                                           cfg.allowNoExpiration, clock)
      claimResult == validateClaimMatchers(payload,
                       [requiredFlags |-> cfg.requiredFlags,
                        requiredKind |-> cfg.requiredKind,
                        requiredFeatures |-> cfg.requiredFeatures])
      allErrors == IF internalResult.errors # <<>> THEN internalResult.errors
                   ELSE IF timingResult.errors # <<>> THEN timingResult.errors
                   ELSE claimResult.errors
      allWarnings == timingResult.warnings \o claimResult.warnings
  IN
  IF claimResult.threw THEN [k |-> "throw"]
  ELSE [k |-> "result", result |-> BuildResult(allErrors, allWarnings, payload)]

\* lines 125-155; k = "throw" when validateClaimMatchers throws
\* lines 125-155 with the timing errors collected before the identity errors
EvaluateClaimsResultTimingFirst(payload, cfg, clock) ==
  LET internalResult == validateInternalClaims(payload, cfg.realm)
      timingResult == validateTimingClaims(payload, cfg.timing,
                                           cfg.allowNoExpiration, clock)
      claimResult == validateClaimMatchers(payload,
                       [requiredFlags |-> cfg.requiredFlags,
                        requiredKind |-> cfg.requiredKind,
                        requiredFeatures |-> cfg.requiredFeatures])
      allErrors == timingResult.errors \o internalResult.errors \o claimResult.errors
      allWarnings == timingResult.warnings \o claimResult.warnings
  IN
  IF claimResult.threw THEN [k |-> "throw"]
  ELSE [k |-> "result", result |-> BuildResult(allErrors, allWarnings, payload)]

EvaluateClaimsResult(payload, cfg, clock) ==
  LET internalResult == validateInternalClaims(payload, cfg.realm)
      timingResult == validateTimingClaims(payload, cfg.timing,
                                           cfg.allowNoExpiration, clock)
      claimResult == validateClaimMatchers(payload,
                       [requiredFlags |-> cfg.requiredFlags,
                        requiredKind |-> cfg.requiredKind,
                        requiredFeatures |-> cfg.requiredFeatures])
      allErrors == internalResult.errors \o timingResult.errors \o claimResult.errors
      allWarnings == timingResult.warnings \o claimResult.warnings
  IN
  IF claimResult.threw THEN [k |-> "throw"]
  ELSE [k |-> "result", result |-> BuildResult(allErrors, allWarnings, payload)]

\* lines 105-111: the result of a failed signature check, payload dropped
SignatureFailureNoPayload(error, decoded) ==
  [valid |-> FALSE, error |-> error, unverifiedPayload |-> Undef]

\* lines 105-111: the result of a failed signature check
SignatureFailure(error, decoded) ==
  [valid |-> FALSE, error |-> error, unverifiedPayload |-> decoded.payload]

\* lines 117-123: the result of a revocation hit
RevocationFailure(error, decoded) ==
  [valid |-> FALSE, error |-> error, unverifiedPayload |-> decoded.payload]

\* lines 64-95: the result of a failed decode
DecodeFailure(errorMessage, token) ==
  [valid |-> FALSE,
   error |-> ClassifyDecodeError(errorMessage),
   unverifiedPayload |-> decodePayload(token)]

(***************************************************************************)
(* Domain matching (utils/domain.ts).  Hostnames and patterns are         *)
(* sequences of one-character strings.                                     *)
(***************************************************************************)
UpperCaseLetters ==
  <<"A", "B", "C", "D", "E", "F", "G", "H", "I", "J", "K", "L", "M",
    "N", "O", "P", "Q", "R", "S", "T", "U", "V", "W", "X", "Y", "Z">>
LowerCaseLetters ==
  <<"a", "b", "c", "d", "e", "f", "g", "h", "i", "j", "k", "l", "m",
    "n", "o", "p", "q", "r", "s", "t", "u", "v", "w", "x", "y", "z">>

\* String.prototype.toLowerCase on ASCII text
toLowerCase(str) ==
  [i \in DOMAIN str |->
     IF \E k \in DOMAIN UpperCaseLetters : UpperCaseLetters[k] = str[i]
     THEN LowerCaseLetters[CHOOSE k \in DOMAIN UpperCaseLetters :
                             UpperCaseLetters[k] = str[i]]
     ELSE str[i]]

startsWith(str, prefix) ==
  Len(str) >= Len(prefix) /\ SubSeq(str, 1, Len(prefix)) = prefix

endsWith(str, suffix) ==
  Len(str) >= Len(suffix) /\ SubSeq(str, Len(str) - Len(suffix) + 1, Len(str)) = suffix

\* str.slice(start), start counted from 0
slice(str, start) == SubSeq(str, start + 1, Len(str))

\* matchesDomain without the length comparison
matchesDomainBareSuffix(hostname, pattern) ==
  LET normalizedHost == toLowerCase(hostname)
      normalizedPattern == toLowerCase(pattern)
      suffix == slice(normalizedPattern, 1)
  IN \/ normalizedHost = normalizedPattern
     \/ /\ startsWith(normalizedPattern, <<"*", ".">>)
        /\ endsWith(normalizedHost, suffix)

matchesDomain(hostname, pattern) ==
  LET normalizedHost == toLowerCase(hostname)
      normalizedPattern == toLowerCase(pattern)
      suffix == slice(normalizedPattern, 1)
  IN \/ normalizedHost = normalizedPattern
     \/ /\ startsWith(normalizedPattern, <<"*", ".">>)
        /\ endsWith(normalizedHost, suffix)
        /\ Len(normalizedHost) > Len(suffix)

\* isDomainAllowed(hostname, allowedDomains), allowedDomains an array of
\* strings
isDomainAllowed(hostname, allowedDomains) ==
  IF Len(allowedDomains.a) = 0 THEN FALSE
  ELSE \E i \in DOMAIN allowedDomains.a : matchesDomain(hostname, allowedDomains.a[i].s)

(***************************************************************************)
(* LicenseValidatorUnbound.checkDomain, lines 170-193: the classification *)
(* of a validation result; k = "throw" when allowedDomains is null        *)
(* (length read on null).                                                  *)
(***************************************************************************)
\* checkDomain with an empty allowlist read as no allowlist
CheckDomainResultEmptyUnrestricted(result, hostname) ==
  LET allowedDomains == Get(result.license, "allowedDomains")
      answer(a) == [k |-> "result", value |-> a]
  IN
  IF result.valid = FALSE
  THEN answer([allowed |-> FALSE,
               reason |-> IF result.error.code = "TOKEN_EXPIRED"
                          THEN "expired" ELSE "invalid_token"])
  ELSE IF allowedDomains.t = "null" THEN [k |-> "throw"]
  ELSE IF allowedDomains.t = "undefined" \/ Len(allowedDomains.a) = 0
    THEN answer([allowed |-> TRUE, reason |-> "no_restrictions"])
  ELSE IF isDomainAllowed(hostname, allowedDomains) THEN answer([allowed |-> TRUE])
  ELSE answer([allowed |-> FALSE, reason |-> "domain_not_in_list"])

CheckDomainResult(result, hostname) ==
  LET allowedDomains == Get(result.license, "allowedDomains")
      answer(a) == [k |-> "result", value |-> a]
  IN
  IF result.valid = FALSE
  THEN answer([allowed |-> FALSE,
               reason |-> IF result.error.code = "TOKEN_EXPIRED"
                          THEN "expired" ELSE "invalid_token"])
  ELSE IF allowedDomains.t = "undefined"
    THEN answer([allowed |-> TRUE, reason |-> "no_restrictions"])
  ELSE IF allowedDomains.t = "null" THEN [k |-> "throw"]
  ELSE IF Len(allowedDomains.a) = 0
    THEN answer([allowed |-> FALSE, reason |-> "empty_allowlist"])
  ELSE IF isDomainAllowed(hostname, allowedDomains) THEN answer([allowed |-> TRUE])
  ELSE answer([allowed |-> FALSE, reason |-> "domain_not_in_list"])

(***************************************************************************)
(* LicenseValidatorUnbound.hasFlag and hasFlags, the classification of a  *)
(* validation result.  license.flags is an array or a value that has no   *)
(* includes method (the call then throws); a Map is a function from its   *)
(* keys.                                                                   *)
(***************************************************************************)
\* (license.flags ?? []).includes(flag)
FlagsInclude(license, flag) ==
  LET flags == Coalesce(Get(license, "flags"), Arr(<<>>))
  IN CASE flags.t = "array" -> [k |-> "result", value |-> ArrIncludes(flags, flag)]
       [] flags.t \in {"number", "boolean", "object"} -> [k |-> "throw"]

\* unbound.ts lines 59-70
HasFlagResult(result, flag) ==
  IF result.valid = FALSE
  THEN [k |-> "result",
        value |-> [enabled |-> FALSE,
                   reason |-> IF result.error.code = "TOKEN_EXPIRED"
                              THEN "expired" ELSE "invalid_token"]]
  ELSE LET included == FlagsInclude(result.license, flag)
       IN IF included.k = "throw" THEN [k |-> "throw"]
          ELSE IF included.value THEN [k |-> "result", value |-> [enabled |-> TRUE]]
          ELSE [k |-> "result",
                value |-> [enabled |-> FALSE, reason |-> "not_in_license"]]

\* unbound.ts lines 81-101
HasFlagsResult(result, flags) ==
  LET keys == {flags.a[i] : i \in DOMAIN flags.a}
  IN IF result.valid = FALSE
     THEN [k |-> "result",
           value |-> [f \in keys |->
                        [enabled |-> FALSE,
                         reason |-> IF result.error.code = "TOKEN_EXPIRED"
                                    THEN "expired" ELSE "invalid_token"]]]
     ELSE IF \E f \in keys : FlagsInclude(result.license, f).k = "throw"
       THEN [k |-> "throw"]
     ELSE [k |-> "result",
           value |-> [f \in keys |->
                        IF FlagsInclude(result.license, f).value
                        THEN [enabled |-> TRUE]
                        ELSE [enabled |-> FALSE, reason |-> "not_in_license"]]]

(***************************************************************************)
(* Expiration info.  validators/unbound.ts and validators/index.ts call   *)
(* computeExpirationInfo(exp, currentTime); the computation is the one    *)
(* written out in validator.ts, getExpirationInfo lines 415-435.  clock   *)
(* is what now() returns.                                                  *)
(***************************************************************************)
\* the computation with the default clock skew granted to the token
computeExpirationInfoWithSkew(exp, currentTimeArg, clock) ==
  LET currentTime == Coalesce(currentTimeArg, Num(clock)).n
      secondsRemaining == exp.n - currentTime
  IN IF exp.t = "undefined"
     THEN [expiresAt |-> Null, isExpired |-> FALSE, secondsRemaining |-> Null,
           timeRemaining |-> Null]
     ELSE [expiresAt |-> exp, isExpired |-> isPast(exp.n, currentTime, DEFAULT_CLOCK_SKEW),
           secondsRemaining |-> Num(secondsRemaining),
           timeRemaining |-> formatDuration(IF secondsRemaining < 0
                                            THEN -secondsRemaining ELSE secondsRemaining)]

computeExpirationInfo(exp, currentTimeArg, clock) ==
  LET currentTime == Coalesce(currentTimeArg, Num(clock)).n
      secondsRemaining == exp.n - currentTime
  IN IF exp.t = "undefined"
     THEN [expiresAt |-> Null, isExpired |-> FALSE, secondsRemaining |-> Null,
           timeRemaining |-> Null]
     ELSE [expiresAt |-> exp, isExpired |-> secondsRemaining <= 0,
           secondsRemaining |-> Num(secondsRemaining),
           timeRemaining |-> formatDuration(IF secondsRemaining < 0
                                            THEN -secondsRemaining ELSE secondsRemaining)]

\* this.timing?.currentTime
TimingCurrentTime(validator) ==
  IF validator.timing.t = "undefined" THEN Undef ELSE Get(validator.timing, "currentTime")

\* LicenseValidatorUnbound.getExpirationInfo(token), unbound.ts lines 211-217
UnboundGetExpirationInfo(validator, token, clock) ==
  LET payload == decodePayload(token)
  IN IF payload.t = "undefined" THEN Null
     ELSE computeExpirationInfo(Get(payload, "exp"), TimingCurrentTime(validator), clock)

(***************************************************************************)
(* LicenseValidatorBound (validators/index.ts).  An instance holds the    *)
(* validator fields, the token and the captured result.  An accessor      *)
(* call yields [k |-> "value", value |-> v] or [k |-> "throw"].           *)
(***************************************************************************)
Value(v) == [k |-> "value", value |-> v]

\* `feature in features` on license.features ?? {}: a TypeError on a
\* primitive
FeatureIn(license, feature) ==
  LET features == Coalesce(Get(license, "features"), Obj(<<>>))
  IN IF features.t \in {"object", "array"}
     THEN Value(HasProperty(features, feature))
     ELSE [k |-> "throw"]

\* index.ts lines 63-215
BoundAccess(instance, op, arg, clock) ==
  LET result == instance.result
      valid == result.valid = TRUE
      license == result.license
  IN CASE op = "valid" -> Value(result.valid)
       [] op = "getResult" -> Value(result)
       [] op = "payload" -> IF ~valid THEN [k |-> "throw"] ELSE Value(license)
       [] op = "error" -> Value(IF valid THEN Null ELSE result.error)
       [] op = "hasFlag" ->
            IF ~valid THEN Value(FALSE)
            ELSE IF FlagsInclude(license, arg).k = "throw" THEN [k |-> "throw"]
            ELSE Value(FlagsInclude(license, arg).value)
       [] op = "hasFlags" ->
            LET keys == {arg.a[i] : i \in DOMAIN arg.a}
            IN IF ~valid THEN Value([f \in keys |-> FALSE])
               ELSE IF \E f \in keys : FlagsInclude(license, f).k = "throw" THEN [k |-> "throw"]
               ELSE Value([f \in keys |-> FlagsInclude(license, f).value])
       [] op = "getKind" ->
            Value(IF ~valid THEN Null ELSE Coalesce(Get(license, "kind"), Null))
       [] op = "hasKind" -> Value(valid /\ Get(license, "kind") = arg)
       [] op = "getFeature" ->
            IF ~valid THEN Value(Null)
            ELSE IF FeatureIn(license, arg.s).k = "throw" THEN [k |-> "throw"]
            ELSE IF FeatureIn(license, arg.s).value
              THEN Value(Get(Coalesce(Get(license, "features"), Obj(<<>>)), arg.s))
            ELSE Value(Null)
       [] op = "hasFeature" ->
            IF ~valid THEN Value(FALSE) ELSE FeatureIn(license, arg.s)
       [] op = "isDomainAllowed" ->
            IF ~valid THEN Value(FALSE)
            ELSE IF Get(license, "allowedDomains").t = "undefined" THEN Value(TRUE)
            ELSE IF Get(license, "allowedDomains").t = "array"
              THEN Value(isDomainAllowed(arg, Get(license, "allowedDomains")))
            ELSE [k |-> "throw"]
       [] op = "getAllowedDomains" ->
            Value(IF ~valid THEN Undef ELSE Get(license, "allowedDomains"))
       [] op = "getExpirationInfo" ->
            IF ~valid THEN Value(Null)
            ELSE Value(computeExpirationInfo(Get(license, "exp"),
                                             TimingCurrentTime(instance.validator), clock))

(***************************************************************************)
(* State                                                                   *)
(***************************************************************************)
VARIABLES
  config,     \* the validator's readonly fields, set by the constructor
  wallClock,  \* what now() returns
  remote,     \* the JSON document served at the revocation URL
  calls       \* per validate() call: position, locals, result

vars == <<config, wallClock, remote, calls>>

CallIds == {1}

NoResult == [valid |-> "pending"]

StageOrder == <<"Decode", "VerifySignature", "CheckRevocation", "EvaluateClaims">>

NewCall(token) ==
  [pc |-> "start", token |-> token, decoded |-> Undef, fetched |-> "none",
   list |-> Null, fetches |-> 0, ran |-> <<>>, result |-> NoResult]

\* a call returns `result`
Return(call, stage, result) ==
  [call EXCEPT !.pc = "done", !.ran = Append(call.ran, stage), !.result = result]

\* an exception escapes the call: the promise rejects
Throw(call, stage) ==
  [call EXCEPT !.pc = "threw", !.ran = Append(call.ran, stage)]

\* `this` of the call: the instance it was started on.  A call started on
\* the validator made by create() carries no instance of its own.
ValidatorOf(c) ==
  IF "validator" \in DOMAIN calls[c] THEN calls[c].validator ELSE config

(***************************************************************************)
(* performValidation, one action per stage                                 *)
(***************************************************************************)
\* lines 61-97 with the decoded token kept in a field of the instance, so
\* that every call in flight sees the token decoded last
DecodeOnInstance(c) ==
  /\ calls[c].pc = "start"
  /\ LET call == calls[c]
         decodeResult == decodeJWT(call.token)
     IN calls' = [d \in DOMAIN calls |->
          IF d = c
          THEN CASE decodeResult.k = "throw" -> Throw(call, "Decode")
                 [] decodeResult.k = "err" ->
                      Return(call, "Decode", DecodeFailure(decodeResult.error, call.token))
                 [] OTHER ->
                      [call EXCEPT !.pc = "verify", !.ran = Append(call.ran, "Decode"),
                                   !.decoded = decodeResult.data]
          ELSE IF decodeResult.k = "ok" /\ calls[d].pc \in {"verify", "revoke", "fetch", "claims"}
            THEN [calls[d] EXCEPT !.decoded = decodeResult.data]
          ELSE calls[d]]
  /\ UNCHANGED <<config, wallClock, remote>>

\* lines 61-97
Decode(c) ==
  /\ calls[c].pc = "start"
  /\ LET call == calls[c]
         decodeResult == decodeJWT(call.token)
     IN calls' = [calls EXCEPT ![c] =
          CASE decodeResult.k = "throw" -> Throw(call, "Decode")
            [] decodeResult.k = "err" ->
                 Return(call, "Decode", DecodeFailure(decodeResult.error, call.token))
            [] OTHER ->
                 [call EXCEPT !.pc = "verify", !.ran = Append(call.ran, "Decode"),
                              !.decoded = decodeResult.data]]
  /\ UNCHANGED <<config, wallClock, remote>>

\* lines 99-111
VerifySignature(c) ==
  /\ calls[c].pc = "verify"
  /\ LET call == calls[c]
         verifyResult == verifySignature(call.decoded, ValidatorOf(c).publicKey)
     IN calls' = [calls EXCEPT ![c] =
          IF ~verifyResult.success
          THEN Return(call, "VerifySignature",
                      SignatureFailure(verifyResult.error, call.decoded))
          ELSE [call EXCEPT !.pc = "revoke", !.ran = Append(call.ran, "VerifySignature")]]
  /\ UNCHANGED <<config, wallClock, remote>>

\* lines 113-123 with a revocation hit that does not end the call
AfterRevocationListNonTerminal(call, revocationList) ==
  LET revocationResult == RevocationDecision(call.decoded.payload, revocationList)
      seen == [call EXCEPT !.list = revocationList]
  IN CASE revocationResult.k = "throw" -> Throw(seen, "CheckRevocation")
       [] OTHER ->
            [seen EXCEPT !.pc = "claims", !.ran = Append(call.ran, "CheckRevocation")]

\* lines 113-123 with checkRevocation lines 192-214, given the list in use
AfterRevocationList(call, revocationList) ==
  LET revocationResult == RevocationDecision(call.decoded.payload, revocationList)
      seen == [call EXCEPT !.list = revocationList]
  IN CASE revocationResult.k = "throw" -> Throw(seen, "CheckRevocation")
       [] revocationResult.k = "err" ->
            Return(seen, "CheckRevocation",
                   RevocationFailure(revocationResult.error, call.decoded))
       [] OTHER ->
            [seen EXCEPT !.pc = "claims", !.ran = Append(call.ran, "CheckRevocation")]

\* checkRevocation lines 183-190 with the static list consulted before the URL
CheckRevocationStaticFirst(c) ==
  /\ calls[c].pc = "revoke"
  /\ LET call == calls[c]
     IN calls' = [calls EXCEPT ![c] =
          IF Truthy(ValidatorOf(c).revocation)
          THEN AfterRevocationList(call, ValidatorOf(c).revocation)
          ELSE IF Truthy(ValidatorOf(c).revocationUrl)
            THEN [call EXCEPT !.pc = "fetch", !.fetches = call.fetches + 1]
          ELSE AfterRevocationList(call, Null)]
  /\ UNCHANGED <<config, wallClock, remote>>

\* checkRevocation lines 183-190 reusing a list another call has fetched
CheckRevocationCached(c) ==
  /\ calls[c].pc = "revoke"
  /\ LET call == calls[c]
         cached == {d \in DOMAIN calls : calls[d].fetched = "ok"}
     IN calls' = [calls EXCEPT ![c] =
          IF Truthy(ValidatorOf(c).revocationUrl)
          THEN IF cached # {}
               THEN AfterRevocationList(call, calls[CHOOSE d \in cached : TRUE].list)
               ELSE [call EXCEPT !.pc = "fetch", !.fetches = call.fetches + 1]
          ELSE IF Truthy(ValidatorOf(c).revocation)
            THEN AfterRevocationList(call, ValidatorOf(c).revocation)
          ELSE AfterRevocationList(call, Null)]
  /\ UNCHANGED <<config, wallClock, remote>>

\* checkRevocation lines 183-190: pick the source; a URL suspends on fetch
CheckRevocation(c) ==
  /\ calls[c].pc = "revoke"
  /\ LET call == calls[c]
     IN calls' = [calls EXCEPT ![c] =
          IF Truthy(ValidatorOf(c).revocationUrl)
          THEN [call EXCEPT !.pc = "fetch", !.fetches = call.fetches + 1]
          ELSE IF Truthy(ValidatorOf(c).revocation)
            THEN AfterRevocationList(call, ValidatorOf(c).revocation)
          ELSE AfterRevocationList(call, Null)]
  /\ UNCHANGED <<config, wallClock, remote>>

FetchOutcomeKinds == {"throw", "notok", "badjson", "ok"}

\* fetchRevocationList lines 225-233: the fetch settles one way or another
FetchRevocationList(c) ==
  /\ calls[c].pc = "fetch"
  /\ \E kind \in FetchOutcomeKinds :
       LET call == [calls[c] EXCEPT !.fetched = kind]
           revocationList == FetchedList([k |-> kind, body |-> remote])
       IN calls' = [calls EXCEPT ![c] = AfterRevocationList(call, revocationList)]
  /\ UNCHANGED <<config, wallClock, remote>>

\* lines 125-172
EvaluateClaims(c) ==
  /\ calls[c].pc = "claims"
  /\ LET call == calls[c]
         r == EvaluateClaimsResult(call.decoded.payload, ValidatorOf(c), wallClock)
     IN calls' = [calls EXCEPT ![c] =
          IF r.k = "throw" THEN Throw(call, "EvaluateClaims")
          ELSE Return(call, "EvaluateClaims", r.result)]
  /\ UNCHANGED <<config, wallClock, remote>>

\* a checkDomain(token, hostname) call: validate(token), then the
\* classification of its result
NoAnswer == [allowed |-> "pending"]

NewCheckDomainCall(token, hostname) ==
  [pc |-> "start", token |-> token, decoded |-> Undef, fetched |-> "none",
   list |-> Null, fetches |-> 0, ran |-> <<>>, result |-> NoResult,
   hostname |-> hostname, answer |-> NoAnswer]

\* unbound.ts lines 168-193, once validate has resolved
CheckDomain(c) ==
  /\ "hostname" \in DOMAIN calls[c]
  /\ calls[c].pc = "done"
  /\ LET call == calls[c]
         r == CheckDomainResult(call.result, call.hostname)
     IN calls' = [calls EXCEPT ![c] =
          IF r.k = "throw" THEN [call EXCEPT !.pc = "threw"]
          ELSE [call EXCEPT !.pc = "answered", !.answer = r.value]]
  /\ UNCHANGED <<config, wallClock, remote>>

\* hasFlag(token, flag) and hasFlags(token, flags) calls
NewHasFlagCall(token, flag) ==
  [pc |-> "start", token |-> token, decoded |-> Undef, fetched |-> "none",
   list |-> Null, fetches |-> 0, ran |-> <<>>, result |-> NoResult,
   flag |-> flag, answer |-> NoAnswer]

NewHasFlagsCall(token, flags) ==
  [pc |-> "start", token |-> token, decoded |-> Undef, fetched |-> "none",
   list |-> Null, fetches |-> 0, ran |-> <<>>, result |-> NoResult,
   flags |-> flags, answer |-> NoAnswer]

\* unbound.ts lines 56-71, once validate has resolved
HasFlag(c) ==
  /\ "flag" \in DOMAIN calls[c]
  /\ calls[c].pc = "done"
  /\ LET call == calls[c]
         r == HasFlagResult(call.result, call.flag)
     IN calls' = [calls EXCEPT ![c] =
          IF r.k = "throw" THEN [call EXCEPT !.pc = "threw"]
          ELSE [call EXCEPT !.pc = "answered", !.answer = r.value]]
  /\ UNCHANGED <<config, wallClock, remote>>

\* unbound.ts lines 76-102, once validate has resolved
HasFlags(c) ==
  /\ "flags" \in DOMAIN calls[c]
  /\ calls[c].pc = "done"
  /\ LET call == calls[c]
         r == HasFlagsResult(call.result, call.flags)
     IN calls' = [calls EXCEPT ![c] =
          IF r.k = "throw" THEN [call EXCEPT !.pc = "threw"]
          ELSE [call EXCEPT !.pc = "answered", !.answer = r.value]]
  /\ UNCHANGED <<config, wallClock, remote>>

(***************************************************************************)
(* Construction: LicenseValidator.create, resolvePublicKey, the           *)
(* constructor and buildConfig.  Key strings are well formed when they    *)
(* name a key; trim() strips the blanks around a fetched key text.        *)
(***************************************************************************)
trim(text) ==
  CASE text = " k1 " -> "k1"
    [] OTHER -> text

\* utils/keys.ts lines 18-51 on string input
normalizePublicKey(input) ==
  IF input.t = "string" /\ input.s \in {"k1", "k2"}
  THEN [k |-> "ok", key |-> input.s]
  ELSE [k |-> "throw"]

\* constructor, base.ts lines 37-52
Construct(realm, publicKey, cfg) ==
  [realm |-> realm, publicKey |-> publicKey,
   revocationUrl |-> cfg.revocationUrl, revocation |-> cfg.revocation,
   requiredFlags |-> cfg.requiredFlags, requiredKind |-> cfg.requiredKind,
   requiredFeatures |-> cfg.requiredFeatures,
   timing |-> cfg.timing, allowNoExpiration |-> cfg.allowNoExpiration]

\* buildConfig leaving the timing options out
buildConfigWithoutTiming(validator) ==
  [requiredFlags |-> validator.requiredFlags, requiredKind |-> validator.requiredKind,
   requiredFeatures |-> validator.requiredFeatures,
   timing |-> Undef, allowNoExpiration |-> validator.allowNoExpiration,
   publicKey |-> validator.publicKey,
   revocationUrl |-> IF Truthy(validator.revocationUrl)
                     THEN validator.revocationUrl ELSE Undef,
   revocation |-> IF ~Truthy(validator.revocationUrl) /\ Truthy(validator.revocation)
                  THEN validator.revocation ELSE Undef]

\* buildConfig, base.ts lines 240-256
buildConfig(validator) ==
  [requiredFlags |-> validator.requiredFlags, requiredKind |-> validator.requiredKind,
   requiredFeatures |-> validator.requiredFeatures,
   timing |-> validator.timing, allowNoExpiration |-> validator.allowNoExpiration,
   publicKey |-> validator.publicKey,
   revocationUrl |-> IF Truthy(validator.revocationUrl)
                     THEN validator.revocationUrl ELSE Undef,
   revocation |-> IF ~Truthy(validator.revocationUrl) /\ Truthy(validator.revocation)
                  THEN validator.revocation ELSE Undef]

\* const v = await LicenseValidator.create(realm, config), then
\* v.validate(token): the call starts in create()
NewCreateCall(token) ==
  [pc |-> "create", token |-> token, decoded |-> Undef, fetched |-> "none",
   list |-> Null, fetches |-> 0, ran |-> <<>>, result |-> NoResult,
   keyFetched |-> "none", validator |-> Null]

\* create() resolves with a new instance, on which validate(token) starts
Constructed(call, key) ==
  IF key.k = "throw" THEN [call EXCEPT !.pc = "rejected"]
  ELSE [call EXCEPT !.pc = "start",
                    !.validator = Construct(config.realm, key.key, config)]

\* resolvePublicKey lines 292-294 and 303-305
ResolvePublicKey(c) ==
  /\ calls[c].pc = "create"
  /\ LET call == calls[c]
     IN calls' = [calls EXCEPT ![c] =
          IF Truthy(config.publicKey)
          THEN Constructed(call, normalizePublicKey(config.publicKey))
          ELSE IF Truthy(config.publicKeyUrl)
            THEN [call EXCEPT !.pc = "keyfetch"]
          ELSE [call EXCEPT !.pc = "rejected"]]
  /\ UNCHANGED <<config, wallClock, remote>>

\* resolvePublicKey lines 295-302 taking the body of any response for the key
FetchPublicKeyIgnoresStatus(c) ==
  /\ calls[c].pc = "keyfetch"
  /\ \E kind \in {"throw", "notok", "ok"}, text \in {"k1", " k1 ", "Not found"} :
       LET call == [calls[c] EXCEPT !.keyFetched = kind]
       IN calls' = [calls EXCEPT ![c] =
            IF kind = "throw" THEN [call EXCEPT !.pc = "rejected"]
            ELSE Constructed(call, normalizePublicKey(Str(trim(text))))]
  /\ UNCHANGED <<config, wallClock, remote>>

\* resolvePublicKey lines 295-302: the key fetch settles
FetchPublicKey(c) ==
  /\ calls[c].pc = "keyfetch"
  /\ \E kind \in {"throw", "notok", "ok"}, text \in {"k1", " k1 ", "Not found"} :
       LET call == [calls[c] EXCEPT !.keyFetched = kind]
       IN calls' = [calls EXCEPT ![c] =
            IF kind # "ok" THEN [call EXCEPT !.pc = "rejected"]
            ELSE Constructed(call, normalizePublicKey(Str(trim(text))))]
  /\ UNCHANGED <<config, wallClock, remote>>

(***************************************************************************)
(* Inputs: tokens, validator configurations, remote documents              *)
(***************************************************************************)
MaxParts == 4

Now0 == 1700 * 1000000

TEST_REALM == "test-app"
ConfiguredKey == "k1"
OtherKey == "k2"
RevocationUrlValue == Str("https://example.com/revocation.json")

\* A JSON object holding exactly the fields of f that are not undefined
MkObj(f) == Obj([k \in {x \in DOMAIN f : f[x].t # "undefined"} |-> f[k]])

GoodHeader == Obj([alg |-> Str("EdDSA"), typ |-> Str("JWT"), kwv |-> Num(1)])

BadHeaderSegs ==
  { BadSeg, RawSeg(5, "none"), JsonSeg(Null), JsonSeg(Num(7)),
    JsonSeg(Obj([alg |-> Str("HS256"), typ |-> Str("JWT"), kwv |-> Num(1)])),
    JsonSeg(Obj([alg |-> Str("structure"), typ |-> Str("JWT"), kwv |-> Num(1)])),
    JsonSeg(Obj([alg |-> Str("EdDSA"), typ |-> Str("JWS"), kwv |-> Num(1)])),
    JsonSeg(Obj([alg |-> Str("EdDSA"), typ |-> Str("JWT")])),
    JsonSeg(Obj([alg |-> Str("EdDSA"), typ |-> Str("JWT"), kwv |-> Num(2)])) }

NonObjectPayloadSegs ==
  { BadSeg, RawSeg(5, "none"), JsonSeg(Null), JsonSeg(Num(7)), JsonSeg(Arr(<<>>)) }

SignatureSegs ==
  { BadSeg, RawSeg(SIGNATURE_LENGTH - 1, ConfiguredKey),
    RawSeg(SIGNATURE_LENGTH, ConfiguredKey), RawSeg(SIGNATURE_LENGTH, OtherKey),
    RawSeg(SIGNATURE_LENGTH, "none") }

\* Payloads of the pipeline specification: identity claims valid, the
\* revocation keys, expiry and flags vary.
PipelinePayloads ==
  { MkObj([iss |-> Str(KEYWRIT_ISSUER), aud |-> Str(TEST_REALM),
           jti |-> jti, sub |-> sub, exp |-> exp, flags |-> flags]) :
      jti \in {Undef, Str(""), Str("j1"), Str("j2")},
      sub \in {Undef, Str("u1")},
      exp \in {Undef, Num(Now0 - 3600), Num(Now0 + 3600)},
      flags \in {Undef, Arr(<<Str("export")>>), Num(5)} }

SamplePayload ==
  MkObj([iss |-> Str(KEYWRIT_ISSUER), aud |-> Str(TEST_REALM), jti |-> Str("j1"),
         sub |-> Str("u1"), exp |-> Num(Now0 + 3600)])

\* Tokens whose segment count is not 3
WrongCountTokens ==
  { [i \in 1..n |-> IF i = 1 THEN JsonSeg(GoodHeader)
                    ELSE IF i = 2 THEN JsonSeg(SamplePayload)
                    ELSE RawSeg(SIGNATURE_LENGTH, ConfiguredKey)] :
      n \in (1..MaxParts) \ {3} }

\* Three-segment tokens that fail somewhere in decodeJWT
UndecodableTokens ==
  { <<h, JsonSeg(SamplePayload), RawSeg(SIGNATURE_LENGTH, ConfiguredKey)>> :
      h \in BadHeaderSegs }
  \cup { <<JsonSeg(GoodHeader), p, s>> :
           p \in NonObjectPayloadSegs,
           s \in {RawSeg(SIGNATURE_LENGTH, ConfiguredKey), RawSeg(SIGNATURE_LENGTH, OtherKey)} }
  \cup { <<JsonSeg(Null), JsonSeg(Null), BadSeg>> }

StructuralTokens == WrongCountTokens \cup UndecodableTokens

PipelineTokens ==
  StructuralTokens
  \cup { <<JsonSeg(GoodHeader), JsonSeg(p), s>> : p \in PipelinePayloads, s \in SignatureSegs }

ListBoth == Obj([jti |-> Arr(<<Str("j1")>>), sub |-> Arr(<<Str("u1")>>)])
ListEmptyId == Obj([jti |-> Arr(<<Str(""), Str("j2")>>)])
ListIllTyped == Obj([jti |-> Num(5)])

StaticLists == {ListBoth, ListEmptyId}
RemoteBodies == {ListBoth, ListIllTyped, Null}

BaseConfig ==
  [realm |-> TEST_REALM, publicKey |-> ConfiguredKey,
   revocationUrl |-> Undef, revocation |-> Undef,
   requiredFlags |-> Undef, requiredKind |-> Undef, requiredFeatures |-> Undef,
   timing |-> Undef, allowNoExpiration |-> Undef]

PipelineConfigs ==
  { [BaseConfig EXCEPT !.revocationUrl = url, !.revocation = list,
                       !.requiredFlags = rf, !.allowNoExpiration = ane] :
      url \in {Undef, RevocationUrlValue},
      list \in {Undef} \cup StaticLists,
      rf \in {Undef, Arr(<<Str("export")>>)},
      ane \in {Undef, Bool(TRUE)} }

\* The state after LicenseValidator.create(): one validate(token) call
\* about to run; the remote document only matters with a revocation URL.
InitWith(configs, tokens, clocks) ==
  /\ config \in configs
  /\ wallClock \in clocks
  /\ remote \in IF Truthy(config.revocationUrl) THEN RemoteBodies ELSE {Null}
  /\ calls \in [CallIds -> {NewCall(t) : t \in tokens}]

Init == InitWith(PipelineConfigs, PipelineTokens, {Now0})

(***************************************************************************)
(* Inputs of the timing specification: exp and nbf around the current     *)
(* time, the skew window and the expiring-soon threshold; clockSkew and   *)
(* currentTime given or defaulted.                                         *)
(***************************************************************************)
MaxOffset == 62

Offsets ==
  (-MaxOffset .. MaxOffset)
  \cup {EXPIRING_SOON_THRESHOLD - 1, EXPIRING_SOON_THRESHOLD, EXPIRING_SOON_THRESHOLD + 1}
  \cup {-3600}

TimingPayloads ==
  { MkObj([iss |-> Str(KEYWRIT_ISSUER), aud |-> Str(TEST_REALM), sub |-> Str("u1"),
           exp |-> exp, nbf |-> nbf]) :
      exp \in {Undef} \cup {Num(Now0 + d) : d \in Offsets},
      nbf \in {Undef, Num(Now0 - 100), Num(Now0 + 100)} }

TimingTokens ==
  StructuralTokens
  \cup { <<JsonSeg(GoodHeader), JsonSeg(p), s>> :
           p \in TimingPayloads,
           s \in {RawSeg(SIGNATURE_LENGTH, ConfiguredKey)} }
  \cup { <<JsonSeg(GoodHeader), JsonSeg(SamplePayload), RawSeg(SIGNATURE_LENGTH, OtherKey)>> }

TimingOptions ==
  {Undef}
  \cup { MkObj([clockSkew |-> skew, currentTime |-> ct]) :
           skew \in {Undef, Num(0), Num(30), Num(60)},
           ct \in {Undef, Num(Now0)} }

TimingConfigs ==
  { [BaseConfig EXCEPT !.timing = timing, !.allowNoExpiration = ane] :
      timing \in TimingOptions,
      ane \in {Undef, Bool(TRUE), Bool(FALSE)} }
  \cup { [BaseConfig EXCEPT !.revocationUrl = RevocationUrlValue] }

\* The wall clock is either at the reference instant or a day past it
InitTiming == InitWith(TimingConfigs, TimingTokens, {Now0, Now0 + 86400})

Next ==
  \E c \in CallIds :
    \/ Decode(c)
    \/ VerifySignature(c)
    \/ CheckRevocation(c)
    \/ FetchRevocationList(c)
    \/ EvaluateClaims(c)

Spec == Init /\ [][Next]_vars

SpecTiming == InitTiming /\ [][Next]_vars

(***************************************************************************)
(* Inputs of the not-before specification: nbf around the current time    *)
(* and the skew window, exp far enough ahead to stay out of the way.      *)
(***************************************************************************)
NotBeforePayloads ==
  { MkObj([iss |-> Str(KEYWRIT_ISSUER), aud |-> Str(TEST_REALM), sub |-> Str("u1"),
           exp |-> exp, nbf |-> Num(Now0 + d)]) :
      exp \in {Undef, Num(Now0 + 2 * 86400)},
      d \in (-MaxOffset .. MaxOffset) \cup {-3600, 3600} }

NotBeforeTokens ==
  StructuralTokens
  \cup { <<JsonSeg(GoodHeader), JsonSeg(p), s>> :
           p \in NotBeforePayloads,
           s \in {RawSeg(SIGNATURE_LENGTH, ConfiguredKey)} }
  \cup { <<JsonSeg(GoodHeader), JsonSeg(SamplePayload), RawSeg(SIGNATURE_LENGTH, OtherKey)>> }

InitNotBefore == InitWith(TimingConfigs, NotBeforeTokens, {Now0, Now0 + 86400})

SpecNotBefore == InitNotBefore /\ [][Next]_vars

(***************************************************************************)
(* Inputs of the claim-evaluation specification: issuer and audience in   *)
(* every shape, flags, kind and features present, partial or missing,     *)
(* against validators that require flags, a kind and feature keys.        *)
(***************************************************************************)
OTHER_REALM == "other-app"

IssuerValues == {Undef, Str(KEYWRIT_ISSUER), Str("KeyWrit")}

AudienceValues ==
  { Undef, Str(TEST_REALM), Str(OTHER_REALM), Str(""),
    Arr(<<>>), Arr(<<Str(OTHER_REALM)>>), Arr(<<Str(OTHER_REALM), Str(TEST_REALM)>>),
    Arr(<<Str("")>>) }

ExpiryValues == {Num(Now0 + 3600), Num(Now0 - 3600)}

FlagValues ==
  { Undef, Arr(<<>>), Arr(<<Str("export")>>), Arr(<<Str("admin"), Str("export")>>) }

KindValues == {Undef, Str("pro"), Str("free")}

FeatureValues ==
  { Undef, Obj(<<>>), Obj([sso |-> Bool(TRUE)]),
    Obj([sso |-> Bool(TRUE), audit |-> Num(30)]) }

ClaimPayloads ==
  { MkObj([iss |-> iss, aud |-> aud, sub |-> Str("u1"), exp |-> exp]) :
      iss \in IssuerValues, aud \in AudienceValues, exp \in ExpiryValues }
  \cup
  { MkObj([iss |-> iss, aud |-> Str(TEST_REALM), sub |-> Str("u1"), exp |-> exp,
           flags |-> flags, kind |-> kind, features |-> features]) :
      iss \in {Undef, Str(KEYWRIT_ISSUER)}, exp \in ExpiryValues,
      flags \in FlagValues, kind \in KindValues, features \in FeatureValues }

ClaimTokens ==
  StructuralTokens
  \cup { <<JsonSeg(GoodHeader), JsonSeg(p), s>> :
           p \in ClaimPayloads,
           s \in {RawSeg(SIGNATURE_LENGTH, ConfiguredKey)} }
  \cup { <<JsonSeg(GoodHeader), JsonSeg(SamplePayload), RawSeg(SIGNATURE_LENGTH, OtherKey)>> }

ClaimConfigs ==
  { [BaseConfig EXCEPT !.realm = realm, !.requiredFlags = rf, !.requiredKind = rk,
                       !.requiredFeatures = rfe] :
      realm \in {TEST_REALM, ""},
      rf \in {Undef, Arr(<<>>), Arr(<<Str("export"), Str("admin")>>),
              Arr(<<Str("admin"), Str("admin")>>)},
      rk \in {Undef, Str("pro")},
      rfe \in {Undef, Arr(<<Str("sso"), Str("audit")>>), Arr(<<Str("toString")>>)} }
  \cup { [BaseConfig EXCEPT !.revocationUrl = RevocationUrlValue] }

InitClaims == InitWith(ClaimConfigs, ClaimTokens, {Now0})

SpecClaims == InitClaims /\ [][Next]_vars

(***************************************************************************)
(* Inputs of the domain specification: every hostname and pattern up to   *)
(* MaxHostLen characters over a letter in both cases, the dot and (for    *)
(* patterns) a leading star, and the hostnames of the documented examples.*)
(***************************************************************************)
MaxHostLen == 3

HostChars == {"a", "A", "."}

Strings(chars, n) == UNION { [1..k -> chars] : k \in 0..n }

A_EXAMPLE_ORG == <<"a", ".", "e", "x", "a", "m", "p", "l", "e", ".", "o", "r", "g">>
EXAMPLE_ORG == <<"e", "x", "a", "m", "p", "l", "e", ".", "o", "r", "g">>
EXAMPLE_ORG_UPPER == <<"E", "X", "A", "M", "P", "L", "E", ".", "O", "R", "G">>
STAR_EXAMPLE_ORG == <<"*", ".", "e", "x", "a", "m", "p", "l", "e", ".", "o", "r", "g">>

Hostnames ==
  Strings(HostChars, MaxHostLen) \cup {A_EXAMPLE_ORG, EXAMPLE_ORG, EXAMPLE_ORG_UPPER}

Patterns ==
  Strings(HostChars, MaxHostLen)
  \cup { <<"*">> \o str : str \in Strings(HostChars, MaxHostLen - 1) }
  \cup {STAR_EXAMPLE_ORG, EXAMPLE_ORG}

AllowedDomainsValues ==
  { Undef, Null, Arr(<<>>) }
  \cup { Arr(<<Str(pattern)>>) : pattern \in Patterns }
  \cup { Arr(<<Str(<<"a">>), Str(<<"*", ".", "a">>)>>),
         Arr(<<Str(<<".", "a">>), Str(EXAMPLE_ORG)>>) }

\* valid licenses carrying each allowlist, and for a few allowlists an
\* expired one and one from another issuer
DomainPayloads ==
  { MkObj([iss |-> Str(KEYWRIT_ISSUER), aud |-> Str(TEST_REALM), sub |-> Str("u1"),
           exp |-> Num(Now0 + 3600), allowedDomains |-> ad]) :
      ad \in AllowedDomainsValues }
  \cup
  { MkObj([iss |-> iss, aud |-> Str(TEST_REALM), sub |-> Str("u1"),
           exp |-> Num(Now0 - 3600), allowedDomains |-> ad]) :
      iss \in {Str(KEYWRIT_ISSUER), Str("KeyWrit")},
      ad \in {Undef, Arr(<<>>), Arr(<<Str(<<"a">>)>>)} }

DomainTokens ==
  { <<JsonSeg(GoodHeader), JsonSeg(p), RawSeg(SIGNATURE_LENGTH, ConfiguredKey)>> :
      p \in DomainPayloads }
  \cup { <<JsonSeg(GoodHeader),
           JsonSeg(MkObj([iss |-> Str(KEYWRIT_ISSUER), aud |-> Str(TEST_REALM),
                          exp |-> Num(Now0 + 3600),
                          allowedDomains |-> Arr(<<Str(<<"a">>)>>)])),
           RawSeg(SIGNATURE_LENGTH, OtherKey)>> }

\* The state after LicenseValidator.create(): one checkDomain(token,
\* hostname) call about to run
InitDomain ==
  /\ wallClock = Now0
  /\ \/ /\ config = BaseConfig
        /\ remote = Null
        /\ calls \in [CallIds -> {NewCheckDomainCall(t, h) :
                                    t \in DomainTokens, h \in Hostnames}]
     \/ /\ config \in {BaseConfig, [BaseConfig EXCEPT !.revocationUrl = RevocationUrlValue]}
        /\ remote \in IF Truthy(config.revocationUrl) THEN RemoteBodies ELSE {Null}
        /\ calls \in [CallIds -> {NewCheckDomainCall(t, h) :
                                    t \in StructuralTokens \cup
                                          {<<JsonSeg(GoodHeader), JsonSeg(SamplePayload),
                                             RawSeg(SIGNATURE_LENGTH, ConfiguredKey)>>},
                                    h \in {EXAMPLE_ORG}}]

NextDomain ==
  \E c \in CallIds :
    \/ Decode(c)
    \/ VerifySignature(c)
    \/ CheckRevocation(c)
    \/ FetchRevocationList(c)
    \/ EvaluateClaims(c)
    \/ CheckDomain(c)

SpecDomain == InitDomain /\ [][NextDomain]_vars

(***************************************************************************)
(* Two validate() calls on one validator.  Their stages interleave at the *)
(* awaits of performValidation; between any two steps the wall clock may  *)
(* advance and the document served at the revocation URL may change.      *)
(***************************************************************************)
PairIds == {1, 2}

ExpiredPayload ==
  MkObj([iss |-> Str(KEYWRIT_ISSUER), aud |-> Str(TEST_REALM), jti |-> Str("j2"),
         exp |-> Num(Now0 - 3600)])

PairTokens ==
  { <<JsonSeg(GoodHeader), JsonSeg(p), RawSeg(SIGNATURE_LENGTH, ConfiguredKey)>> :
      p \in {SamplePayload, ExpiredPayload,
             MkObj([iss |-> Str(KEYWRIT_ISSUER), aud |-> Str(TEST_REALM),
                    jti |-> Str("j2"), exp |-> Num(Now0 + 3600)])} }
  \cup { <<JsonSeg(GoodHeader), JsonSeg(SamplePayload), RawSeg(SIGNATURE_LENGTH, OtherKey)>>,
         <<JsonSeg(GoodHeader), JsonSeg(SamplePayload)>> }

PairConfigs ==
  { [BaseConfig EXCEPT !.revocationUrl = url, !.revocation = list, !.timing = timing] :
      url \in {Undef, RevocationUrlValue},
      list \in {Undef, ListBoth},
      timing \in {Undef, Obj([currentTime |-> Num(Now0)])} }

InitPair ==
  /\ config \in PairConfigs
  /\ wallClock = Now0
  /\ remote \in IF Truthy(config.revocationUrl) THEN RemoteBodies ELSE {Null}
  /\ calls \in [PairIds -> {NewCall(t) : t \in PairTokens}]

\* now() (utils/time.ts) returns a later instant
Tick ==
  /\ wallClock = Now0
  /\ wallClock' = Now0 + 86400
  /\ UNCHANGED <<config, remote, calls>>

\* the server behind revocationUrl starts serving another document
Publish ==
  /\ Truthy(config.revocationUrl)
  /\ remote' \in RemoteBodies \ {remote}
  /\ UNCHANGED <<config, wallClock, calls>>

NextPair ==
  \/ \E c \in PairIds :
       \/ Decode(c)
       \/ VerifySignature(c)
       \/ CheckRevocation(c)
       \/ FetchRevocationList(c)
       \/ EvaluateClaims(c)
  \/ Tick
  \/ Publish

SpecPair == InitPair /\ [][NextPair]_vars

(***************************************************************************)
(* Construction followed by one validate call.  Here `config` is the      *)
(* ValidatorConfig handed to create(), with the realm argument.           *)
(***************************************************************************)
CreateConfigs ==
  { [realm |-> TEST_REALM, publicKey |-> key, publicKeyUrl |-> keyUrl,
     revocationUrl |-> url, revocation |-> Undef,
     requiredFlags |-> Undef, requiredKind |-> Undef, requiredFeatures |-> Undef,
     timing |-> Undef, allowNoExpiration |-> Undef] :
      key \in {Undef, Str("k1"), Str("zz"), Str("")},
      keyUrl \in {Undef, Str("https://example.com/public-key"), Str("")},
      url \in {Undef, RevocationUrlValue} }

InitCreate ==
  /\ config \in CreateConfigs
  /\ wallClock = Now0
  /\ remote \in IF Truthy(config.revocationUrl) THEN RemoteBodies ELSE {Null}
  /\ calls \in [CallIds -> {NewCreateCall(t) : t \in PairTokens}]

NextCreate ==
  \E c \in CallIds :
    \/ ResolvePublicKey(c)
    \/ FetchPublicKey(c)
    \/ Decode(c)
    \/ VerifySignature(c)
    \/ CheckRevocation(c)
    \/ FetchRevocationList(c)
    \/ EvaluateClaims(c)

SpecCreate == InitCreate /\ [][NextCreate]_vars

(***************************************************************************)
(* hasFlag, hasFlags and checkDomain on tokens that are expired, carry a  *)
(* wrong issuer or audience, miss a required flag, are revoked, or any    *)
(* combination.                                                            *)
(***************************************************************************)
ReasonPayloads ==
  { MkObj([iss |-> iss, aud |-> aud, sub |-> Str("u1"), exp |-> exp, nbf |-> nbf,
           flags |-> flags]) :
      iss \in {Str(KEYWRIT_ISSUER), Str("KeyWrit")},
      aud \in {Str(TEST_REALM), Str(OTHER_REALM)},
      exp \in {Num(Now0 + 3600), Num(Now0 - 3600), Num(Now0 - 30)},
      nbf \in {Undef, Num(Now0 + 3600)},
      flags \in {Undef, Arr(<<Str("export")>>)} }

ReasonTokens ==
  { <<JsonSeg(GoodHeader), JsonSeg(p), RawSeg(SIGNATURE_LENGTH, ConfiguredKey)>> :
      p \in ReasonPayloads }
  \cup { <<JsonSeg(GoodHeader), JsonSeg(ExpiredPayload), RawSeg(SIGNATURE_LENGTH, OtherKey)>>,
         <<JsonSeg(GoodHeader), JsonSeg(ExpiredPayload)>> }

InitReason ==
  /\ config \in { [BaseConfig EXCEPT !.requiredFlags = rf, !.revocation = list] :
                    rf \in {Undef, Arr(<<Str("admin")>>)},
                    list \in {Undef, ListBoth} }
  /\ wallClock = Now0
  /\ remote = Null
  /\ calls \in [CallIds ->
       {NewHasFlagCall(t, Str("export")) : t \in ReasonTokens}
       \cup {NewHasFlagsCall(t, Arr(<<Str("export"), Str("admin")>>)) : t \in ReasonTokens}
       \cup {NewCheckDomainCall(t, EXAMPLE_ORG) : t \in ReasonTokens}]

NextReason ==
  \E c \in CallIds :
    \/ Decode(c)
    \/ VerifySignature(c)
    \/ CheckRevocation(c)
    \/ EvaluateClaims(c)
    \/ HasFlag(c)
    \/ HasFlags(c)
    \/ CheckDomain(c)

SpecReason == InitReason /\ [][NextReason]_vars

(***************************************************************************)
(* bind, the bound accessors, revalidate and unbind.  Slot 1 runs         *)
(* bind(token) on the validator made by create(); slot 2 holds what a     *)
(* revalidate() or an unbind() on the bound instance of slot 1 starts.    *)
(***************************************************************************)
IdleCall ==
  [pc |-> "idle", token |-> <<>>, decoded |-> Undef, fetched |-> "none",
   list |-> Null, fetches |-> 0, ran |-> <<>>, result |-> NoResult,
   origin |-> "none", validator |-> Null, instance |-> Null,
   accessed |-> Null]

\* a performValidation(token) run started by `origin` on `validator`
NewBoundCall(origin, validator, token) ==
  [IdleCall EXCEPT !.pc = "start", !.token = token, !.origin = origin,
                   !.validator = validator]

\* new LicenseValidatorBound(this.realm, this.publicKey, this.buildConfig(),
\* token, result): unbound.ts lines 225-231, index.ts lines 224-230
Bind(c) ==
  /\ calls[c].pc = "done"
  /\ calls[c].origin \in {"bind", "revalidate"}
  /\ LET call == calls[c]
         this == call.validator
     IN calls' = [calls EXCEPT ![c] =
          [call EXCEPT !.pc = "bound",
                       !.instance = [validator |-> Construct(this.realm, this.publicKey,
                                                             buildConfig(this)),
                                     token |-> call.token,
                                     result |-> call.result]]]
  /\ UNCHANGED <<config, wallClock, remote>>

AccessorOps ==
  { [op |-> op, arg |-> Undef] :
      op \in {"valid", "getResult", "payload", "error", "getKind",
              "getAllowedDomains", "getExpirationInfo"} }
  \cup { [op |-> "hasFlag", arg |-> Str("export")],
         [op |-> "hasFlags", arg |-> Arr(<<Str("export"), Str("admin")>>)],
         [op |-> "hasKind", arg |-> Str("pro")],
         [op |-> "getFeature", arg |-> Str("sso")],
         [op |-> "hasFeature", arg |-> Str("sso")],
         [op |-> "isDomainAllowed", arg |-> EXAMPLE_ORG] }

\* one synchronous accessor call on the bound instance; `accessed` is the
\* caller's record of the last synchronous call and what it yielded
Access(c, ops) ==
  /\ calls[c].pc = "bound"
  /\ \E a \in ops :
       calls' = [calls EXCEPT ![c].accessed =
                   [op |-> a.op,
                    out |-> BoundAccess(calls[c].instance, a.op, a.arg, wallClock)]]
  /\ UNCHANGED <<config, wallClock, remote>>

\* getExpirationInfo(token) on the unbound validator, before bind(token)
\* has validated anything or after it has returned
GetExpirationInfo(c) ==
  /\ calls[c].origin = "bind"
  /\ calls[c].pc \in {"start", "bound"}
  /\ calls' = [calls EXCEPT ![c].accessed =
                 [op |-> "unbound.getExpirationInfo",
                  out |-> Value(UnboundGetExpirationInfo(calls[c].validator,
                                                         calls[c].token, wallClock))]]
  /\ UNCHANGED <<config, wallClock, remote>>

\* revalidate() storing the fresh result in the instance it was called on
RevalidateInPlace(c, d) ==
  /\ c # d
  /\ calls[c].pc = "bound"
  /\ calls[d].pc \in {"idle", "bound", "done", "threw"}
  /\ calls' = [calls EXCEPT
       ![d] = NewBoundCall("revalidate", calls[c].instance.validator,
                           calls[c].instance.token),
       ![c].instance.result = NoResult]
  /\ UNCHANGED <<config, wallClock, remote>>

\* revalidate(), index.ts line 223: performValidation(this.token) starts
Revalidate(c, d) ==
  /\ c # d
  /\ calls[c].pc = "bound"
  /\ calls[d].pc \in {"idle", "bound", "done", "threw"}
  /\ calls' = [calls EXCEPT
       ![d] = NewBoundCall("revalidate", calls[c].instance.validator,
                           calls[c].instance.token)]
  /\ UNCHANGED <<config, wallClock, remote>>

\* unbind(), index.ts lines 237-243, and validate(token) on what it returns
Unbind(c, d, token) ==
  /\ c # d
  /\ calls[c].pc = "bound"
  /\ calls[d].pc \in {"idle", "bound", "done", "threw"}
  /\ LET this == calls[c].instance.validator
     IN calls' = [calls EXCEPT
          ![d] = NewBoundCall("unbind",
                              Construct(this.realm, this.publicKey, buildConfig(this)),
                              token)]
  /\ UNCHANGED <<config, wallClock, remote>>

(***************************************************************************)
(* Inputs of the bound-validator specification: licenses with well-typed  *)
(* and ill-typed fields, tokens that fail each stage, configurations with *)
(* every revocation source and with the whole policy set.                 *)
(***************************************************************************)
RichPayload ==
  MkObj([iss |-> Str(KEYWRIT_ISSUER), aud |-> Str(TEST_REALM),
         exp |-> Num(Now0 + 3600), flags |-> Arr(<<Str("export")>>),
         kind |-> Str("pro"), features |-> Obj([sso |-> Bool(TRUE)]),
         allowedDomains |-> Arr(<<Str(STAR_EXAMPLE_ORG)>>)])

BoundPayloads ==
  { SamplePayload, RichPayload, ExpiredPayload,
    MkObj([iss |-> Str(KEYWRIT_ISSUER), aud |-> Str(TEST_REALM), exp |-> Num(Now0 - 30)]),
    MkObj([iss |-> Str(KEYWRIT_ISSUER), aud |-> Str(TEST_REALM),
           flags |-> Arr(<<Str("export")>>)]),
    MkObj([iss |-> Str("KeyWrit"), aud |-> Str(TEST_REALM), exp |-> Num(Now0 + 3600)]) }
  \cup
  { MkObj([iss |-> Str(KEYWRIT_ISSUER), aud |-> Str(TEST_REALM), exp |-> Num(Now0 + 3600),
           flags |-> Num(5)]),
    MkObj([iss |-> Str(KEYWRIT_ISSUER), aud |-> Str(TEST_REALM), exp |-> Num(Now0 + 3600),
           features |-> Num(5)]),
    MkObj([iss |-> Str(KEYWRIT_ISSUER), aud |-> Str(TEST_REALM), exp |-> Num(Now0 + 3600),
           allowedDomains |-> Null]) }

BoundTokens ==
  { <<JsonSeg(GoodHeader), JsonSeg(p), RawSeg(SIGNATURE_LENGTH, ConfiguredKey)>> :
      p \in BoundPayloads }
  \cup { <<JsonSeg(GoodHeader), JsonSeg(SamplePayload), RawSeg(SIGNATURE_LENGTH, OtherKey)>>,
         <<JsonSeg(GoodHeader), JsonSeg(Num(7)), RawSeg(SIGNATURE_LENGTH, ConfiguredKey)>>,
         <<JsonSeg(GoodHeader), JsonSeg(SamplePayload)>> }

BoundConfigs ==
  { [BaseConfig EXCEPT !.revocationUrl = url, !.revocation = list] :
      url \in {Undef, RevocationUrlValue, Str("")},
      list \in {Undef, ListBoth} }
  \cup { [BaseConfig EXCEPT
             !.requiredFlags = Arr(<<Str("export")>>),
             !.timing = Obj([clockSkew |-> Num(0), currentTime |-> Num(Now0)]),
             !.allowNoExpiration = Bool(TRUE)] }

\* bind(token) on the validator made by create(), then accessor calls on
\* the bound instance; getExpirationInfo(token) on the unbound validator
InitBound ==
  /\ config \in BoundConfigs
  /\ wallClock = Now0
  /\ remote \in IF Truthy(config.revocationUrl) THEN {ListBoth, Null} ELSE {Null}
  /\ calls \in [CallIds -> {NewBoundCall("bind", config, t) : t \in BoundTokens}]

NextBound ==
  \/ \E c \in CallIds :
       \/ Decode(c)
       \/ VerifySignature(c)
       \/ CheckRevocation(c)
       \/ FetchRevocationList(c)
       \/ EvaluateClaims(c)
       \/ Bind(c)
       \/ Access(c, AccessorOps)
       \/ GetExpirationInfo(c)
  \/ Tick

SpecBound == InitBound /\ [][NextBound]_vars

\* bind(token) in slot 1, then revalidate() and unbind() on the bound
\* instance any number of times, with accessor calls in between
InitRebind ==
  /\ config \in BoundConfigs
  /\ wallClock = Now0
  /\ remote \in IF Truthy(config.revocationUrl) THEN {ListBoth, Null} ELSE {Null}
  /\ calls \in { [c \in PairIds |-> IF c = 1 THEN NewBoundCall("bind", config, t)
                                     ELSE IdleCall] : t \in BoundTokens }

NextRebind ==
  \/ \E c \in PairIds :
       \/ Decode(c)
       \/ VerifySignature(c)
       \/ CheckRevocation(c)
       \/ FetchRevocationList(c)
       \/ EvaluateClaims(c)
       \/ Bind(c)
  \/ Access(1, {a \in AccessorOps : a.op \in {"valid", "getResult", "error"}})
  \/ Revalidate(1, 2)
  \/ \E p \in {SamplePayload, RichPayload, ExpiredPayload,
               MkObj([iss |-> Str(KEYWRIT_ISSUER), aud |-> Str(TEST_REALM),
                      flags |-> Arr(<<Str("export")>>)])} :
       Unbind(1, 2, <<JsonSeg(GoodHeader), JsonSeg(p),
                      RawSeg(SIGNATURE_LENGTH, ConfiguredKey)>>)
  \/ Tick

SpecRebind == InitRebind /\ [][NextRebind]_vars

TypeOK ==
  \A c \in CallIds :
    calls[c].pc \in {"start", "verify", "revoke", "fetch", "claims", "done", "threw",
                     "answered", "create", "keyfetch", "rejected", "idle", "bound"}

(***************************************************************************)
(* Vocabulary of the properties                                            *)
(***************************************************************************)
DecodeCodes == {"MALFORMED_TOKEN", "INVALID_HEADER", "INVALID_PAYLOAD"}
ClaimCodes ==
  {"INVALID_ISSUER", "INVALID_AUDIENCE", "TOKEN_EXPIRED", "EXPIRATION_REQUIRED",
   "TOKEN_NOT_YET_VALID", "MISSING_REQUIRED_FLAG", "KIND_MISMATCH",
   "MISSING_REQUIRED_FEATURE"}

StageCodes(stage) ==
  CASE stage = "Decode" -> DecodeCodes
    [] stage = "VerifySignature" -> {"SIGNATURE_VERIFICATION_FAILED"}
    [] stage = "CheckRevocation" -> {"TOKEN_REVOKED"}
    [] stage = "EvaluateClaims" -> ClaimCodes

Returned(call) == call.pc = "done"
Failed(call) == Returned(call) /\ call.result.valid = FALSE
Succeeded(call) == Returned(call) /\ call.result.valid = TRUE

\* The payload JSON the token carries in its second segment
ParsedPayload(call) == ParseSegment(call.token[2]).val

\* Every error a failure result exposes
ResultErrors(result) ==
  IF "errors" \in DOMAIN result /\ result.errors.t = "array"
  THEN result.errors.a ELSE <<result.error>>

CodesOf(seq) == {seq[i].code : i \in DOMAIN seq}

\* The three claim checks applied to a payload under the configuration
ClaimErrorsOf(payload) ==
  validateInternalClaims(payload, config.realm).errors
  \o validateTimingClaims(payload, config.timing, config.allowNoExpiration, wallClock).errors
  \o validateClaimMatchers(payload, [requiredFlags |-> config.requiredFlags,
                                     requiredKind |-> config.requiredKind,
                                     requiredFeatures |-> config.requiredFeatures]).errors

\* Index in StageOrder of the earliest stage that fails for this call
\* (0 when none does), each stage judged on its own
EarliestFailingStage(call) ==
  LET d == decodeJWT(call.token) IN
  IF d.k # "ok" THEN 1
  ELSE IF ~verifySignature(d.data, config.publicKey).success THEN 2
  ELSE IF RevocationDecision(d.data.payload, call.list).k # "null" THEN 3
  ELSE IF ClaimErrorsOf(d.data.payload) # <<>> THEN 4
  ELSE 0

(***************************************************************************)
(* C1: validate runs Decode, VerifySignature, CheckRevocation,            *)
(* EvaluateClaims strictly in that order; every failure is terminal: the  *)
(* reported error belongs to the earliest failing stage, no later stage   *)
(* has run, and a failure before claim evaluation carries no errors list. *)
(***************************************************************************)
C1_StageOrderTerminal ==
  \A c \in CallIds :
    LET call == calls[c]
        k == EarliestFailingStage(call)
    IN /\ Len(call.ran) <= Len(StageOrder)
       /\ \A i \in DOMAIN call.ran : call.ran[i] = StageOrder[i]
       /\ Returned(call) =>
            IF k = 0
            THEN call.result.valid = TRUE /\ call.ran = StageOrder
            ELSE /\ call.result.valid = FALSE
                 /\ Len(call.ran) = k
                 /\ call.result.error.code \in StageCodes(StageOrder[k])
                 /\ k < 4 => "errors" \notin DOMAIN call.result

\* a token that is both revoked and expired yields only TOKEN_REVOKED, and
\* a token with a bad signature whose jti is listed yields only
\* SIGNATURE_VERIFICATION_FAILED
C1_Witness ==
  \E c \in CallIds :
    LET call == calls[c] IN
    /\ Failed(call)
    /\ Truthy(config.revocation) /\ ~Truthy(config.revocationUrl)
    /\ Len(call.token) = 3
    /\ ArrIncludes(Get(config.revocation, "jti"), Get(ParsedPayload(call), "jti"))
    /\ \/ /\ call.result.error.code = "TOKEN_REVOKED"
          /\ "TOKEN_EXPIRED" \in CodesOf(ClaimErrorsOf(ParsedPayload(call)))
       \/ /\ call.result.error.code = "SIGNATURE_VERIFICATION_FAILED"
          /\ Truthy(Get(ParsedPayload(call), "jti"))

(***************************************************************************)
(* C2: validate returns valid:true if and only if the token decodes, its  *)
(* signature verifies under the configured key, the revocation stage      *)
(* reports no revocation on the list in use and the three claim checks    *)
(* produce zero errors; the license is then the payload exactly as parsed.*)
(***************************************************************************)
C2_ValidIff ==
  \A c \in CallIds :
    LET call == calls[c]
        d == decodeJWT(call.token)
    IN Returned(call) =>
         /\ call.result.valid = TRUE <=>
              /\ d.k = "ok"
              /\ ed25519Verify(d.data.signature, d.data.signingInput, config.publicKey)
              /\ RevocationDecision(d.data.payload, call.list).k = "null"
              /\ validateInternalClaims(d.data.payload, config.realm).errors = <<>>
              /\ validateTimingClaims(d.data.payload, config.timing,
                                      config.allowNoExpiration, wallClock).errors = <<>>
              /\ validateClaimMatchers(d.data.payload,
                   [requiredFlags |-> config.requiredFlags,
                    requiredKind |-> config.requiredKind,
                    requiredFeatures |-> config.requiredFeatures]).errors = <<>>
         /\ call.result.valid = TRUE => call.result.license = ParsedPayload(call)

C2_Witness ==
  \E c \in CallIds :
    /\ Succeeded(calls[c])
    /\ calls[c].result.license = ParsedPayload(calls[c])
    /\ calls[c].token[3].signer = config.publicKey
    /\ DOMAIN calls[c].result.license.f = {"iss", "aud", "jti", "sub", "exp", "flags"}

(***************************************************************************)
(* C3: for every input token, validate resolves to a ValidationResult and *)
(* never throws or rejects.                                                *)
(***************************************************************************)
C3_NeverThrows ==
  \A c \in CallIds : calls[c].pc # "threw"

(***************************************************************************)
(* C4: every returned ValidationResult populates exactly one variant      *)
(* (valid:true with license and no error/errors/unverifiedPayload, or     *)
(* valid:false with error and no license), and when errors is present its *)
(* first element is result.error.                                          *)
(***************************************************************************)
C4_OneVariant ==
  \A c \in CallIds :
    LET r == calls[c].result IN
    Returned(calls[c]) =>
      /\ r.valid \in BOOLEAN
      /\ r.valid = TRUE =>
           /\ "license" \in DOMAIN r
           /\ DOMAIN r \cap {"error", "errors", "unverifiedPayload"} = {}
      /\ r.valid = FALSE =>
           /\ "error" \in DOMAIN r
           /\ "license" \notin DOMAIN r
           /\ ("errors" \in DOMAIN r /\ r.errors.t # "undefined") =>
                /\ r.errors.t = "array"
                /\ Len(r.errors.a) > 0
                /\ r.errors.a[1] = r.error

C4_Witness ==
  \E c \in CallIds :
    /\ Failed(calls[c])
    /\ "errors" \in DOMAIN calls[c].result
    /\ calls[c].result.errors.t = "array"
    /\ Len(calls[c].result.errors.a) >= 2
    /\ calls[c].result.errors.a[2] # calls[c].result.error

(***************************************************************************)
(* C5: every failure produced after the Decode stage carries              *)
(* unverifiedPayload equal to the decoded payload; a token signed with a  *)
(* key other than the configured one fails SIGNATURE_VERIFICATION_FAILED  *)
(* with the original payload as unverifiedPayload.                         *)
(***************************************************************************)
C5_UnverifiedPayload ==
  \A c \in CallIds :
    LET call == calls[c] IN
    /\ (Failed(call) /\ Len(call.ran) >= 2) =>
         /\ "unverifiedPayload" \in DOMAIN call.result
         /\ call.result.unverifiedPayload = ParsedPayload(call)
    /\ (Returned(call) /\ decodeJWT(call.token).k = "ok"
        /\ call.token[3].signer # config.publicKey) =>
         /\ call.result.valid = FALSE
         /\ call.result.error.code = "SIGNATURE_VERIFICATION_FAILED"
         /\ call.result.unverifiedPayload = ParsedPayload(call)

C5_Witness ==
  \E c \in CallIds :
    /\ Failed(calls[c])
    /\ calls[c].result.error.code = "SIGNATURE_VERIFICATION_FAILED"
    /\ calls[c].token[3].signer = OtherKey
    /\ calls[c].result.unverifiedPayload.t = "object"
    /\ calls[c].result.unverifiedPayload = ParsedPayload(calls[c])

(***************************************************************************)
(* C6: revocation is fail-open: with a revocationUrl configured, when the *)
(* fetch throws, returns a non-success status or an unparseable body, the *)
(* revocation stage reports nothing and validate goes on to claim         *)
(* evaluation; the outcome is the one claim evaluation alone gives.       *)
(***************************************************************************)
FetchFailures == {"throw", "notok", "badjson"}

C6_FailOpen ==
  \A c \in CallIds :
    LET call == calls[c] IN
    (Truthy(config.revocationUrl) /\ call.fetched \in FetchFailures) =>
      /\ call.pc \in {"claims", "done", "threw"}
      /\ Len(call.ran) >= 3 /\ call.ran[3] = "CheckRevocation"
      /\ call.pc # "claims" => Len(call.ran) = 4
      /\ Returned(call) =>
           /\ call.result.valid = (ClaimErrorsOf(call.decoded.payload) = <<>>)
           /\ call.result.valid = FALSE =>
                call.result.error.code \in ClaimCodes

\* a token whose jti is on the served list validates when the fetch fails
C6_Witness ==
  \E c \in CallIds :
    /\ Succeeded(calls[c])
    /\ Truthy(config.revocationUrl)
    /\ calls[c].fetched \in FetchFailures
    /\ remote = ListBoth
    /\ ArrIncludes(Get(remote, "jti"), Get(calls[c].result.license, "jti"))

(***************************************************************************)
(* C7: with a revocation list available, the revocation stage checks jti  *)
(* membership first (TOKEN_REVOKED, reason jti_revoked) and only if jti   *)
(* does not match checks sub membership (reason sub_revoked); exactly one *)
(* revocation error is reported, whatever the other claims are.           *)
(***************************************************************************)
\* a RevocationList as typed: jti and sub, when given, are arrays
WellFormedList(list) ==
  /\ list.t = "object"
  /\ \A k \in {"jti", "sub"} : Get(list, k).t \in {"undefined", "array"}

\* v is a member of the list's field
Listed(list, field, v) ==
  /\ v.t # "undefined"
  /\ Get(list, field).t = "array"
  /\ ArrIncludes(Get(list, field), v)

\* the list the revocation stage of this call consults
ListInUse(call) ==
  IF Truthy(config.revocationUrl)
  THEN (IF call.fetched = "ok" THEN remote ELSE Null)
  ELSE IF Truthy(config.revocation) THEN config.revocation ELSE Null

C7_JtiThenSub ==
  \A c \in CallIds :
    LET call == calls[c]
        list == ListInUse(call)
        jti == Get(call.decoded.payload, "jti")
        sub == Get(call.decoded.payload, "sub")
    IN (/\ Len(call.ran) >= 3
        /\ WellFormedList(list)) =>
         /\ Listed(list, "jti", jti) =>
              /\ Failed(call)
              /\ call.result.error.code = "TOKEN_REVOKED"
              /\ call.result.error.details.reason = "jti_revoked"
              /\ "errors" \notin DOMAIN call.result
         /\ (~Listed(list, "jti", jti) /\ Listed(list, "sub", sub)) =>
              /\ Failed(call)
              /\ call.result.error.code = "TOKEN_REVOKED"
              /\ call.result.error.details.reason = "sub_revoked"
              /\ "errors" \notin DOMAIN call.result
         /\ (~Listed(list, "jti", jti) /\ ~Listed(list, "sub", sub)) =>
              ~(Failed(call) /\ call.result.error.code = "TOKEN_REVOKED")

(***************************************************************************)
(* Vocabulary of the timing properties                                     *)
(***************************************************************************)
\* timing.clockSkew, 60 seconds when not given
SkewInUse ==
  IF config.timing.t = "object" /\ "clockSkew" \in DOMAIN config.timing.f
  THEN config.timing.f.clockSkew.n ELSE 60

\* timing.currentTime, the wall clock when not given
NowInUse ==
  IF config.timing.t = "object" /\ "currentTime" \in DOMAIN config.timing.f
  THEN config.timing.f.currentTime.n ELSE wallClock

AllowNoExpirationInUse ==
  config.allowNoExpiration.t = "boolean" /\ config.allowNoExpiration.b

\* the call has run claim evaluation on a decoded payload
Evaluated(call) == Len(call.ran) = 4 /\ call.pc = "done"

\* what the timing check emits for the call's payload
TimingOf(call) ==
  validateTimingClaims(call.decoded.payload, config.timing, config.allowNoExpiration,
                       wallClock)

ResultWarnings(result) ==
  IF "warnings" \in DOMAIN result /\ result.warnings.t = "array"
  THEN result.warnings.a ELSE <<>>

(***************************************************************************)
(* C8: for a token with exp present, TOKEN_EXPIRED is emitted if and only *)
(* if now > exp + skew (skew = timing.clockSkew, default 60; now =        *)
(* timing.currentTime, default the wall clock); at now = exp + skew the   *)
(* token is not expired.                                                   *)
(***************************************************************************)
C8_ExpiredIff ==
  \A c \in CallIds :
    LET call == calls[c]
        exp == Get(call.decoded.payload, "exp")
    IN (Evaluated(call) /\ exp.t = "number") =>
         /\ "TOKEN_EXPIRED" \in CodesOf(TimingOf(call).errors)
              <=> NowInUse > exp.n + SkewInUse
         /\ call.result.valid = FALSE =>
              ("TOKEN_EXPIRED" \in CodesOf(ResultErrors(call.result))
                 <=> NowInUse > exp.n + SkewInUse)
         /\ NowInUse > exp.n + SkewInUse => call.result.valid = FALSE

\* at the boundary now = exp + skew, with the default skew, the token passes
C8_Witness ==
  \E c \in CallIds :
    /\ Succeeded(calls[c])
    /\ config.timing.t = "undefined"
    /\ Get(calls[c].result.license, "exp").t = "number"
    /\ wallClock = Get(calls[c].result.license, "exp").n + 60

(***************************************************************************)
(* C9: for a token with exp present that is not expired, EXPIRING_SOON is *)
(* warned exactly when 0 < exp - now <= 7 days and CLOCK_SKEW_APPLIED     *)
(* exactly when exp < now <= exp + skew; the warnings never block success *)
(* (exp = now - 30 with clockSkew = 60 validates, CLOCK_SKEW_APPLIED      *)
(* present).                                                               *)
(***************************************************************************)
C9_Warnings ==
  \A c \in CallIds :
    LET call == calls[c]
        exp == Get(call.decoded.payload, "exp")
        emitted == CodesOf(TimingOf(call).warnings)
    IN (Evaluated(call) /\ exp.t = "number" /\ ~(NowInUse > exp.n + SkewInUse)) =>
         /\ "EXPIRING_SOON" \in emitted
              <=> (0 < exp.n - NowInUse /\ exp.n - NowInUse <= 7 * 86400)
         /\ "CLOCK_SKEW_APPLIED" \in emitted
              <=> (exp.n < NowInUse /\ NowInUse <= exp.n + SkewInUse)
         /\ call.result.valid = TRUE =>
              CodesOf(ResultWarnings(call.result)) = emitted
         /\ (/\ validateInternalClaims(call.decoded.payload, config.realm).errors = <<>>
             /\ TimingOf(call).errors = <<>>)
              => call.result.valid = TRUE

C9_Witness ==
  \E c \in CallIds :
    /\ Succeeded(calls[c])
    /\ SkewInUse = 60
    /\ Get(calls[c].result.license, "exp").n = NowInUse - 30
    /\ "CLOCK_SKEW_APPLIED" \in CodesOf(ResultWarnings(calls[c].result))

(***************************************************************************)
(* C10: for a token with no exp claim the timing check emits              *)
(* EXPIRATION_REQUIRED unless allowNoExpiration is set, in which case it  *)
(* emits no error for the missing exp and the warning NO_EXPIRATION;      *)
(* never both, never neither.                                              *)
(***************************************************************************)
C10_NoExpiration ==
  \A c \in CallIds :
    LET call == calls[c]
        required == "EXPIRATION_REQUIRED" \in CodesOf(TimingOf(call).errors)
        warned == "NO_EXPIRATION" \in CodesOf(TimingOf(call).warnings)
    IN (Evaluated(call) /\ Get(call.decoded.payload, "exp").t = "undefined") =>
         /\ required <=> ~AllowNoExpirationInUse
         /\ warned <=> AllowNoExpirationInUse
         /\ required # warned
         /\ "TOKEN_EXPIRED" \notin CodesOf(TimingOf(call).errors)
         /\ required => (call.result.valid = FALSE
                         /\ "EXPIRATION_REQUIRED" \in CodesOf(ResultErrors(call.result)))
         /\ call.result.valid = TRUE =>
              "NO_EXPIRATION" \in CodesOf(ResultWarnings(call.result))

C10_Witness ==
  \E c \in CallIds :
    /\ Succeeded(calls[c])
    /\ AllowNoExpirationInUse
    /\ "exp" \notin DOMAIN calls[c].result.license.f
    /\ CodesOf(ResultWarnings(calls[c].result)) = {"NO_EXPIRATION"}

(***************************************************************************)
(* C11: for a token with nbf present, TOKEN_NOT_YET_VALID is emitted if   *)
(* and only if now < nbf - skew (skew = timing.clockSkew, default 60; now *)
(* = timing.currentTime, default the wall clock); a token whose nbf lies  *)
(* at most skew seconds in the future is accepted.                         *)
(***************************************************************************)
C11_NotYetValidIff ==
  \A c \in CallIds :
    LET call == calls[c]
        nbf == Get(call.decoded.payload, "nbf")
    IN (Evaluated(call) /\ nbf.t = "number") =>
         /\ "TOKEN_NOT_YET_VALID" \in CodesOf(TimingOf(call).errors)
              <=> NowInUse < nbf.n - SkewInUse
         /\ call.result.valid = FALSE =>
              ("TOKEN_NOT_YET_VALID" \in CodesOf(ResultErrors(call.result))
                 <=> NowInUse < nbf.n - SkewInUse)
         /\ NowInUse < nbf.n - SkewInUse => call.result.valid = FALSE
         /\ (/\ nbf.n <= NowInUse + SkewInUse
             /\ "TOKEN_EXPIRED" \notin CodesOf(TimingOf(call).errors)
             /\ "EXPIRATION_REQUIRED" \notin CodesOf(TimingOf(call).errors))
              => call.result.valid = TRUE

\* at the boundary nbf = now + skew, with the default skew, the token passes
C11_Witness ==
  \E c \in CallIds :
    /\ Succeeded(calls[c])
    /\ config.timing.t = "undefined"
    /\ Get(calls[c].result.license, "nbf").t = "number"
    /\ Get(calls[c].result.license, "nbf").n = wallClock + 60

(***************************************************************************)
(* Vocabulary of the claim-evaluation properties                           *)
(***************************************************************************)
IdentityCodes == {"INVALID_ISSUER", "INVALID_AUDIENCE"}
TimingCodes == {"TOKEN_EXPIRED", "EXPIRATION_REQUIRED", "TOKEN_NOT_YET_VALID"}
MatcherCodes == {"MISSING_REQUIRED_FLAG", "KIND_MISMATCH", "MISSING_REQUIRED_FEATURE"}

\* 1, 2, 3 for an error of the identity, timing, matcher check
CheckRank(error) ==
  IF error.code \in IdentityCodes THEN 1
  ELSE IF error.code \in TimingCodes THEN 2
  ELSE 3

\* what each check finds for the call's payload, run on its own
IdentityOf(call) == validateInternalClaims(call.decoded.payload, config.realm)

MatchersOf(call) ==
  validateClaimMatchers(call.decoded.payload,
                        [requiredFlags |-> config.requiredFlags,
                         requiredKind |-> config.requiredKind,
                         requiredFeatures |-> config.requiredFeatures])

\* every violation the three checks find, as a set
ViolationsOf(call) ==
  {IdentityOf(call).errors[i] : i \in DOMAIN IdentityOf(call).errors}
  \cup {TimingOf(call).errors[i] : i \in DOMAIN TimingOf(call).errors}
  \cup {MatchersOf(call).errors[i] : i \in DOMAIN MatchersOf(call).errors}

\* every error a returned result exposes, none for a success
ExposedErrors(result) == IF result.valid = FALSE THEN ResultErrors(result) ELSE <<>>

\* a sequence lists the checks' errors in the order identity, timing, matchers
InCheckOrder(seq) ==
  \A i, j \in DOMAIN seq : i < j => CheckRank(seq[i]) <= CheckRank(seq[j])

(***************************************************************************)
(* C12 as stated: within claim evaluation all three checks run whatever   *)
(* the earlier ones found, the first violation in the order identity,     *)
(* timing, matchers is result.error and the full set of violations is     *)
(* result.errors.                                                          *)
(***************************************************************************)
C12_FullSetAsErrors ==
  \A c \in CallIds :
    LET call == calls[c]
        found == ViolationsOf(call)
    IN (Evaluated(call) /\ found # {}) =>
         /\ call.result.valid = FALSE
         /\ call.result.error \in found
         /\ \A e \in found : CheckRank(call.result.error) <= CheckRank(e)
         /\ "errors" \in DOMAIN call.result
         /\ call.result.errors.t = "array"
         /\ {call.result.errors.a[i] : i \in DOMAIN call.result.errors.a} = found

(***************************************************************************)
(* C12 amended: as above, but the full set of violations is result.errors *)
(* only when two or more violations were found; with exactly one,         *)
(* result.errors is undefined and result.error is the whole set.          *)
(***************************************************************************)
C12_CollectsAll ==
  \A c \in CallIds :
    LET call == calls[c]
        found == ViolationsOf(call)
    IN Evaluated(call) =>
         /\ call.result.valid = (found = {})
         /\ found # {} =>
              /\ call.result.error \in found
              /\ \A e \in found : CheckRank(call.result.error) <= CheckRank(e)
              /\ call.result.error = ExposedErrors(call.result)[1]
              /\ {ExposedErrors(call.result)[i] : i \in DOMAIN ExposedErrors(call.result)}
                   = found
              /\ InCheckOrder(ExposedErrors(call.result))
              /\ call.result.errors.t = "array" <=> Len(ExposedErrors(call.result)) >= 2
              /\ call.result.errors.t = "undefined" <=> Len(ExposedErrors(call.result)) = 1

\* a token that violates all three checks at once: all are reported,
\* the identity violation first
C12_Witness ==
  \E c \in CallIds :
    LET r == calls[c].result IN
    /\ Failed(calls[c])
    /\ Evaluated(calls[c])
    /\ r.errors.t = "array"
    /\ r.error.code = "INVALID_ISSUER"
    /\ {"INVALID_ISSUER", "TOKEN_EXPIRED", "MISSING_REQUIRED_FLAG", "KIND_MISMATCH"}
         \subseteq CodesOf(r.errors.a)
    /\ IdentityOf(calls[c]).errors # <<>>
    /\ TimingOf(calls[c]).errors # <<>>
    /\ MatchersOf(calls[c]).errors # <<>>

(***************************************************************************)
(* C13: the identity check emits INVALID_ISSUER if and only if            *)
(* payload.iss is not exactly "keywrit" (a missing iss included), and     *)
(* INVALID_AUDIENCE if and only if the configured realm is not a member   *)
(* of payload.aud normalized to a list (a string becomes a one-element    *)
(* list, a missing aud the empty list).                                    *)
(***************************************************************************)
\* payload.aud as a set of members: a string alone, an array's elements
NormalizedAudience(aud) ==
  CASE aud.t = "string" -> {aud}
    [] aud.t = "array" -> {aud.a[i] : i \in DOMAIN aud.a}
    [] OTHER -> {}

C13_Identity ==
  \A c \in CallIds :
    LET call == calls[c]
        iss == Get(call.decoded.payload, "iss")
        aud == Get(call.decoded.payload, "aud")
        emitted == CodesOf(IdentityOf(call).errors)
        exposed == CodesOf(ExposedErrors(call.result))
    IN Evaluated(call) =>
         /\ "INVALID_ISSUER" \in emitted <=> iss # Str(KEYWRIT_ISSUER)
         /\ "INVALID_AUDIENCE" \in emitted
              <=> Str(config.realm) \notin NormalizedAudience(aud)
         /\ exposed \cap IdentityCodes = emitted

(***************************************************************************)
(* C14: the matcher check emits exactly one MISSING_REQUIRED_FLAG per     *)
(* entry of requiredFlags absent from payload.flags (missing flags count  *)
(* as empty), one KIND_MISMATCH if and only if requiredKind is configured *)
(* and payload.kind is not exactly equal to it, and exactly one           *)
(* MISSING_REQUIRED_FEATURE per entry of requiredFeatures that is not a   *)
(* key of payload.features (missing features count as empty); nothing is  *)
(* emitted for a satisfied requirement.                                    *)
(***************************************************************************)
\* the entries of a configured requirement list, none when not configured
Required(list) == IF list.t = "array" THEN list.a ELSE <<>>

\* the members of payload.flags
FlagsHeld(payload) ==
  LET flags == Get(payload, "flags") IN
  IF flags.t = "array" THEN {flags.a[i] : i \in DOMAIN flags.a} ELSE {}

\* the keys of payload.features
FeatureKeys(payload) ==
  LET features == Get(payload, "features") IN
  IF features.t = "object" THEN {Str(k) : k \in DOMAIN features.f} ELSE {}

\* the requirement named by each error of the given code, in order
Reported(errors, code) ==
  LET hits == SelectSeq(errors, LAMBDA e : e.code = code)
  IN [i \in DOMAIN hits |-> hits[i].details.required]

C14_Matchers ==
  \A c \in CallIds :
    LET call == calls[c]
        payload == call.decoded.payload
        exposed == ExposedErrors(call.result)
        absentFlags == SelectSeq(Required(config.requiredFlags),
                                 LAMBDA f : f \notin FlagsHeld(payload))
        absentFeatures == SelectSeq(Required(config.requiredFeatures),
                                    LAMBDA f : f \notin FeatureKeys(payload))
    IN Evaluated(call) =>
         /\ Reported(exposed, "MISSING_REQUIRED_FLAG") = absentFlags
         /\ "KIND_MISMATCH" \in CodesOf(exposed)
              <=> (/\ config.requiredKind.t # "undefined"
                   /\ Get(payload, "kind") # config.requiredKind)
         /\ Len(SelectSeq(exposed, LAMBDA e : e.code = "KIND_MISMATCH")) <= 1
         /\ Reported(exposed, "MISSING_REQUIRED_FEATURE") = absentFeatures

(***************************************************************************)
(* Vocabulary of the decode properties                                     *)
(***************************************************************************)
ThreeSegments(call) == Len(call.token) = 3

\* the JSON a header or payload segment carries, when it carries one
Decodable(seg) == ~ParseSegment(seg).threw

\* a header that passes every header check
ValidHeader(seg) ==
  /\ Decodable(seg)
  /\ Get(seg.val, "alg") = Str("EdDSA")
  /\ Get(seg.val, "typ") = Str("JWT")
  /\ \E i \in DOMAIN SUPPORTED_VERSIONS : Get(seg.val, "kwv") = Num(SUPPORTED_VERSIONS[i])

\* the word by which a header error message names the first offending field
OffendingField(header) ==
  IF Get(header, "alg") # Str("EdDSA") THEN "algorithm"
  ELSE IF Get(header, "typ") # Str("JWT") THEN "type"
  ELSE "version"

FailedWith(call, code) == Failed(call) /\ call.result.error.code = code

(***************************************************************************)
(* C15: a token whose segment count is not 3, or that has 3 segments of   *)
(* which the header, payload or signature segment cannot be decoded (bad  *)
(* base64url or bad JSON), fails validate with MALFORMED_TOKEN.  The      *)
(* undecodable segment is taken as the first thing wrong with the token.  *)
(***************************************************************************)
C15_Malformed ==
  \A c \in CallIds :
    LET call == calls[c]
        t == call.token
    IN (/\ Returned(call)
        /\ \/ ~ThreeSegments(call)
           \/ ThreeSegments(call) /\ ~Decodable(t[1])
           \/ ThreeSegments(call) /\ ValidHeader(t[1]) /\ ~Decodable(t[2])
           \/ /\ ThreeSegments(call) /\ ValidHeader(t[1])
              /\ Decodable(t[2]) /\ t[2].val.t = "object"
              /\ base64urlDecode(t[3]).threw)
         => FailedWith(call, "MALFORMED_TOKEN")

(***************************************************************************)
(* C16: for every 3-segment token whose header decodes to a JSON object,  *)
(* if alg is not "EdDSA", typ is not "JWT", kwv is missing or kwv is not  *)
(* a supported version, validate fails with INVALID_HEADER and a message  *)
(* naming the offending field, whatever the header field values are.      *)
(***************************************************************************)
C16_InvalidHeader ==
  \A c \in CallIds :
    LET call == calls[c]
        t == call.token
    IN (/\ Returned(call) /\ ThreeSegments(call)
        /\ Decodable(t[1]) /\ t[1].val.t = "object"
        /\ ~ValidHeader(t[1]))
         => /\ FailedWith(call, "INVALID_HEADER")
            /\ MsgIncludes(call.result.error.message, OffendingField(t[1].val))

(***************************************************************************)
(* C17: for a 3-segment token with a valid header, if the payload segment *)
(* decodes to JSON that is not an object (an array, a scalar or null),    *)
(* validate fails with INVALID_PAYLOAD.                                    *)
(***************************************************************************)
C17_NonObjectPayload ==
  \A c \in CallIds :
    LET call == calls[c]
        t == call.token
    IN (/\ Returned(call) /\ ThreeSegments(call) /\ ValidHeader(t[1])
        /\ Decodable(t[2]) /\ t[2].val.t # "object")
         => FailedWith(call, "INVALID_PAYLOAD")

(***************************************************************************)
(* C18: for a 3-segment token with a valid header and an object payload,  *)
(* if the signature segment decodes to bytes whose length is not 64,      *)
(* validate fails with INVALID_PAYLOAD.                                    *)
(***************************************************************************)
C18_SignatureLength ==
  \A c \in CallIds :
    LET call == calls[c]
        t == call.token
    IN (/\ Returned(call) /\ ThreeSegments(call) /\ ValidHeader(t[1])
        /\ Decodable(t[2]) /\ t[2].val.t = "object"
        /\ ~base64urlDecode(t[3]).threw
        /\ t[3].len # SIGNATURE_LENGTH)
         => FailedWith(call, "INVALID_PAYLOAD")

(***************************************************************************)
(* Vocabulary of the domain properties                                     *)
(***************************************************************************)
\* checkDomain has returned for the call
Answered(call) == call.pc = "answered"

\* the allowlist of the license the call validated
AllowlistOf(call) == Get(call.result.license, "allowedDomains")

\* two texts are equal ignoring the case of their letters
EqualIgnoringCase(x, y) ==
  /\ Len(x) = Len(y)
  /\ \A i \in DOMAIN x : toLowerCase(<<x[i]>>) = toLowerCase(<<y[i]>>)

\* the pattern is *.suffix, and the hostname, ignoring case, ends in
\* .suffix and is strictly longer than .suffix
WildcardMatch(hostname, pattern) ==
  LET dotSuffix == Tail(pattern)
      lead == Len(hostname) - Len(dotSuffix)
  IN /\ Len(pattern) >= 2 /\ pattern[1] = "*" /\ pattern[2] = "."
     /\ lead > 0
     /\ EqualIgnoringCase(SubSeq(hostname, lead + 1, Len(hostname)), dotSuffix)

MatchesAsSpecified(hostname, pattern) ==
  EqualIgnoringCase(hostname, pattern) \/ WildcardMatch(hostname, pattern)

(***************************************************************************)
(* C19: matches(hostname, pattern) is true if and only if hostname equals *)
(* pattern ignoring case, or pattern has the form *.suffix and hostname,  *)
(* ignoring case, ends in .suffix and is strictly longer than .suffix; so *)
(* a.example.org matches *.example.org, example.org does not, and         *)
(* EXAMPLE.ORG matches example.org.  Stated of every hostname and pattern *)
(* a checkDomain call has compared.                                        *)
(***************************************************************************)
C19_Matches ==
  /\ matchesDomain(A_EXAMPLE_ORG, STAR_EXAMPLE_ORG)
  /\ ~matchesDomain(EXAMPLE_ORG, STAR_EXAMPLE_ORG)
  /\ matchesDomain(EXAMPLE_ORG_UPPER, EXAMPLE_ORG)
  /\ \A c \in CallIds :
       LET call == calls[c]
           allowlist == AllowlistOf(call)
       IN (Answered(call) /\ call.result.valid = TRUE /\ allowlist.t = "array") =>
            /\ \A i \in DOMAIN allowlist.a :
                 matchesDomain(call.hostname, allowlist.a[i].s)
                   <=> MatchesAsSpecified(call.hostname, allowlist.a[i].s)
            /\ Len(allowlist.a) = 1 =>
                 (call.answer.allowed
                    <=> MatchesAsSpecified(call.hostname, allowlist.a[1].s))

\* the bare suffix of a wildcard pattern has been asked about and refused,
\* upper-case letters included
C19_Witness ==
  \E c \in CallIds :
    LET call == calls[c] IN
    /\ Answered(call) /\ call.result.valid = TRUE
    /\ AllowlistOf(call) = Arr(<<Str(<<"*", ".", "A">>)>>)
    /\ call.hostname = <<".", "a">>
    /\ call.answer.allowed = FALSE

(***************************************************************************)
(* C20: checkDomain(token, hostname) classifies with this priority: a     *)
(* failed validation gives allowed:false with reason expired or           *)
(* invalid_token; otherwise allowedDomains undefined gives allowed:true   *)
(* with reason no_restrictions; otherwise an empty allowedDomains gives   *)
(* allowed:false with reason empty_allowlist; otherwise allowed:true (no  *)
(* reason) if some pattern matches the hostname and allowed:false with    *)
(* reason domain_not_in_list if none does.                                 *)
(***************************************************************************)
C20_CheckDomain ==
  \A c \in CallIds :
    LET call == calls[c]
        allowlist == AllowlistOf(call)
        answer == call.answer
    IN Answered(call) =>
         IF call.result.valid = FALSE
         THEN /\ answer.allowed = FALSE
              /\ answer.reason \in {"expired", "invalid_token"}
              /\ answer.reason = "expired" <=> call.result.error.code = "TOKEN_EXPIRED"
         ELSE IF allowlist.t = "undefined"
           THEN answer = [allowed |-> TRUE, reason |-> "no_restrictions"]
         ELSE IF allowlist.a = <<>>
           THEN answer = [allowed |-> FALSE, reason |-> "empty_allowlist"]
         ELSE IF \E i \in DOMAIN allowlist.a :
                   MatchesAsSpecified(call.hostname, allowlist.a[i].s)
           THEN answer = [allowed |-> TRUE]
         ELSE answer = [allowed |-> FALSE, reason |-> "domain_not_in_list"]

\* an expired license whose allowlist is empty is reported as expired,
\* not as an empty allowlist
C20_Witness ==
  \E c \in CallIds :
    LET call == calls[c] IN
    /\ Answered(call)
    /\ call.result.valid = FALSE
    /\ Get(call.result.unverifiedPayload, "allowedDomains") = Arr(<<>>)
    /\ call.answer = [allowed |-> FALSE, reason |-> "expired"]

(***************************************************************************)
(* Vocabulary of the two-call properties                                    *)
(***************************************************************************)
Finished(call) == call.pc \in {"done", "threw"}

\* What the caller of validate() observes: the promise's fate and value
Outcome(call) == [pc |-> call.pc, result |-> call.result]

CurrentTimeInjected(validator) ==
  validator.timing.t = "object" /\ Get(validator.timing, "currentTime").t # "undefined"

SameTokenFinished ==
  /\ calls[1].token = calls[2].token
  /\ Finished(calls[1])
  /\ Finished(calls[2])

(***************************************************************************)
(* C21 as stated: two validate() calls on the same validator with the     *)
(* same token and the same injected timing.currentTime return identical   *)
(* results, for every configuration, a revocationUrl included.            *)
(***************************************************************************)
C21_Deterministic ==
  (SameTokenFinished /\ CurrentTimeInjected(config))
    => Outcome(calls[1]) = Outcome(calls[2])

(***************************************************************************)
(* C21, amended: two validate() calls on the same validator with the same *)
(* token and the same injected timing.currentTime return identical        *)
(* results whenever both calls obtained the same revocation list, which   *)
(* is always so without a revocationUrl.                                  *)
(***************************************************************************)
C21_DeterministicGivenList ==
  (SameTokenFinished /\ CurrentTimeInjected(config)
     /\ calls[1].list = calls[2].list)
    => Outcome(calls[1]) = Outcome(calls[2])

\* both calls fetched the same list, the wall clock moved past the token's
\* expiry between them, and both results are the same success
C21_Witness ==
  /\ SameTokenFinished
  /\ CurrentTimeInjected(config)
  /\ Truthy(config.revocationUrl)
  /\ calls[1].fetched = "ok" /\ calls[2].fetched = "ok"
  /\ calls[1].list = ListBoth /\ calls[2].list = ListBoth
  /\ wallClock > Now0 + 3600
  /\ Succeeded(calls[1])
  /\ Outcome(calls[1]) = Outcome(calls[2])

\* What validate(token) returns on `validator` when it is the only call,
\* given the revocation list it obtains and the instant of claim evaluation
AloneOutcome(validator, token, list, clock) ==
  LET threw == [pc |-> "threw", result |-> NoResult]
      d == decodeJWT(token)
  IN IF d.k = "throw" THEN threw
     ELSE IF d.k = "err"
       THEN [pc |-> "done", result |-> DecodeFailure(d.error, token)]
     ELSE LET v == verifySignature(d.data, validator.publicKey)
          IN IF ~v.success
             THEN [pc |-> "done", result |-> SignatureFailure(v.error, d.data)]
             ELSE LET r == RevocationDecision(d.data.payload, list)
                  IN IF r.k = "throw" THEN threw
                     ELSE IF r.k = "err"
                       THEN [pc |-> "done", result |-> RevocationFailure(r.error, d.data)]
                     ELSE LET e == EvaluateClaimsResult(d.data.payload, validator, clock)
                          IN IF e.k = "throw" THEN threw
                             ELSE [pc |-> "done", result |-> e.result]

(***************************************************************************)
(* C25: concurrent validate calls on one unbound validator do not         *)
(* interfere.  Under every interleaving of their stages a call finishes   *)
(* with the outcome it would have alone (given the list it fetched and    *)
(* the instant it evaluated the claims), a finished call's outcome is not *)
(* touched by the other call, and no validator field is ever written.     *)
(***************************************************************************)
C25_NoInterference ==
  [][ /\ config' = config
      /\ \A c \in PairIds :
           /\ (Finished(calls'[c]) /\ ~Finished(calls[c]))
                => Outcome(calls'[c])
                     = AloneOutcome(config, calls[c].token, calls'[c].list, wallClock)
           /\ Finished(calls[c]) => calls'[c] = calls[c] ]_vars

\* two calls with different tokens, both past their fetch, ended differently
C25_Witness ==
  /\ calls[1].token # calls[2].token
  /\ Truthy(config.revocationUrl)
  /\ calls[1].fetched = "ok" /\ calls[2].fetched = "throw"
  /\ Failed(calls[1]) /\ calls[1].result.error.code = "TOKEN_REVOKED"
  /\ Succeeded(calls[2])

\* The token passes Decode and VerifySignature on the validator
PassesVerification(call) ==
  LET d == decodeJWT(call.token)
  IN d.k = "ok" /\ verifySignature(d.data, config.publicKey).success

(***************************************************************************)
(* C27: with a revocationUrl configured a validate call issues exactly    *)
(* one fetch if the token passed decode and signature verification and    *)
(* none otherwise; a failed fetch is not retried and no call reuses the   *)
(* list another call fetched.                                             *)
(***************************************************************************)
C27_OneFetchPerCall ==
  Truthy(config.revocationUrl) =>
    \A c \in PairIds :
      /\ calls[c].fetches <= 1
      /\ Finished(calls[c]) =>
           /\ calls[c].fetches = IF PassesVerification(calls[c]) THEN 1 ELSE 0
           /\ (calls[c].fetched # "none") = PassesVerification(calls[c])

\* the first call's fetch failed and was not retried; the second call, on
\* the same token, fetched the list itself
C27_Witness ==
  /\ Truthy(config.revocationUrl)
  /\ SameTokenFinished
  /\ calls[1].fetched = "throw" /\ calls[1].fetches = 1
  /\ calls[2].fetched = "ok" /\ calls[2].fetches = 1
  /\ calls[2].list = ListBoth

HoldsUrlAndList ==
  Truthy(config.revocationUrl) /\ config.revocation.t # "undefined"

Ran(call, stage) == \E i \in DOMAIN call.ran : call.ran[i] = stage

\* The token's jti or sub is on the list
OnList(payload, list) ==
  \/ Listed(list, "jti", Get(payload, "jti"))
  \/ Listed(list, "sub", Get(payload, "sub"))

(***************************************************************************)
(* C29: a validator holding both a revocationUrl and a static list only   *)
(* consults the URL.  Every call that ran the revocation stage fetched,   *)
(* the list it used is what the fetch produced, and after a failed fetch  *)
(* the stage was passed with no list at all, whatever the static list     *)
(* says about the token.                                                  *)
(***************************************************************************)
C29_UrlOnly ==
  HoldsUrlAndList =>
    \A c \in CallIds :
      LET call == calls[c] IN
      Ran(call, "CheckRevocation") =>
        /\ call.fetched # "none"
        /\ call.list = FetchedList([k |-> call.fetched, body |-> remote])
        /\ call.fetched # "ok" =>
             /\ call.list = Null
             /\ call.pc \in {"claims", "done", "threw"}
             /\ Returned(call) => Ran(call, "EvaluateClaims")

\* the fetch failed and a token whose jti and sub are on the static list
\* was accepted
C29_Witness ==
  \E c \in CallIds :
    /\ HoldsUrlAndList
    /\ config.revocation = ListBoth
    /\ calls[c].fetched = "throw"
    /\ OnList(ParsedPayload(calls[c]), config.revocation)
    /\ Succeeded(calls[c])

(***************************************************************************)
(* C24: create() rejects when neither publicKey nor publicKeyUrl is given *)
(* and when the public-key fetch fails (transport error or non-success    *)
(* status); a rejected create() yields no instance and runs no stage.  A  *)
(* failed revocation fetch does not abort the validate call: it goes on   *)
(* to claim evaluation.                                                   *)
(***************************************************************************)
C24_Construction ==
  \A c \in CallIds :
    LET call == calls[c] IN
    /\ (~Truthy(config.publicKey) /\ ~Truthy(config.publicKeyUrl) /\ call.pc # "create")
         => call.pc = "rejected"
    /\ call.keyFetched \in {"throw", "notok"} => call.pc = "rejected"
    /\ call.pc = "rejected" => (call.validator = Null /\ call.ran = <<>>)
    /\ call.fetched \in {"throw", "notok", "badjson"} =>
         /\ Ran(call, "CheckRevocation")
         /\ \/ call.pc \in {"claims", "done"}
            \/ call.pc = "threw" /\ Ran(call, "EvaluateClaims")

\* the key URL answered with a non-success status and create() rejected
C24_Witness ==
  \E c \in CallIds :
    /\ ~Truthy(config.publicKey)
    /\ calls[c].keyFetched = "notok"
    /\ calls[c].pc = "rejected"

\* The reasons a hasFlag, hasFlags or checkDomain answer carries
ReasonsOf(call) ==
  IF "flags" \in DOMAIN call
  THEN {call.answer[f].reason : f \in {g \in DOMAIN call.answer : "reason" \in DOMAIN call.answer[g]}}
  ELSE IF "reason" \in DOMAIN call.answer THEN {call.answer.reason} ELSE {}

\* The token's exp lies before the instant of validation minus the skew
PastExpiry(call) ==
  LET exp == Get(ParsedPayload(call), "exp")
  IN exp.t = "number" /\ exp.n < NowInUse - SkewInUse

(***************************************************************************)
(* C28: the unbound hasFlag, hasFlags and checkDomain report the reason   *)
(* expired exactly when the primary error code of the failed validation   *)
(* is TOKEN_EXPIRED, and invalid_token for every other failure.  An       *)
(* expired token with a wrong issuer or audience is therefore reported as *)
(* invalid_token, and an expired token whose identity claims are right is *)
(* reported as expired whether or not it also fails a matcher.            *)
(***************************************************************************)
C28_ExpiredReason ==
  \A c \in CallIds :
    LET call == calls[c] IN
    (Answered(call) /\ call.result.valid = FALSE) =>
      /\ ReasonsOf(call) =
           IF call.result.error.code = "TOKEN_EXPIRED" THEN {"expired"} ELSE {"invalid_token"}
      /\ (Len(call.ran) = 4 /\ PastExpiry(call) /\ IdentityOf(call).errors # <<>>)
           => ReasonsOf(call) = {"invalid_token"}
      /\ (Len(call.ran) = 4 /\ PastExpiry(call) /\ IdentityOf(call).errors = <<>>)
           => ReasonsOf(call) = {"expired"}

\* an expired token that also misses a required flag, reported as expired
C28_Witness ==
  \E c \in CallIds :
    /\ Answered(calls[c])
    /\ "flags" \in DOMAIN calls[c]
    /\ PastExpiry(calls[c])
    /\ calls[c].result.valid = FALSE
    /\ "MISSING_REQUIRED_FLAG" \in CodesOf(ResultErrors(calls[c].result))
    /\ ReasonsOf(calls[c]) = {"expired"}

(***************************************************************************)
(* Vocabulary of the bound-validator properties                            *)
(***************************************************************************)
\* the call finishes in this step
Finishes(c) == Finished(calls'[c]) /\ ~Finished(calls[c])

\* what the revocation stage of a validator consults
RevocationSource(validator) ==
  IF Truthy(validator.revocationUrl) THEN validator.revocationUrl
  ELSE IF Truthy(validator.revocation) THEN validator.revocation
  ELSE Undef

SamePolicy(v, w) ==
  /\ v.realm = w.realm
  /\ v.publicKey = w.publicKey
  /\ RevocationSource(v) = RevocationSource(w)
  /\ v.requiredFlags = w.requiredFlags
  /\ v.requiredKind = w.requiredKind
  /\ v.requiredFeatures = w.requiredFeatures
  /\ v.timing = w.timing
  /\ v.allowNoExpiration = w.allowNoExpiration

(***************************************************************************)
(* C22: the result a bound validator captured is frozen.  No accessor     *)
(* call, revalidate() or unbind() changes the instance of slot 1, and     *)
(* getResult(), valid and error keep answering from it.  A revalidate()   *)
(* that returns yields another instance, on the same token, holding the   *)
(* result of a run of the whole pipeline from Decode on: the result a     *)
(* validate(token) on the original validator has for the list fetched and *)
(* the instant of claim evaluation.                                       *)
(***************************************************************************)
C22_Frozen ==
  [][ /\ calls[1].pc = "bound" =>
           /\ calls'[1].pc = "bound"
           /\ calls'[1].instance = calls[1].instance
           /\ calls'[1].accessed # calls[1].accessed =>
                LET a == calls'[1].accessed
                    captured == calls[1].instance.result
                IN /\ a.op = "getResult" => a.out = Value(captured)
                   /\ a.op = "valid" => a.out = Value(captured.valid)
                   /\ a.op = "error" =>
                        a.out = Value(IF captured.valid = TRUE THEN Null ELSE captured.error)
      /\ calls'[2].origin = "revalidate" =>
           /\ calls'[2].token = calls[1].instance.token
           /\ Finishes(2) =>
                /\ calls'[2].ran[1] = "Decode"
                /\ Outcome(calls'[2])
                     = AloneOutcome(config, calls[1].instance.token, calls'[2].list, wallClock)
           /\ calls'[2].pc = "bound" =>
                /\ calls'[2].instance.token = calls[1].instance.token
                /\ calls'[2].instance.result = calls'[2].result ]_vars

\* the original instance still answers valid although the instance that
\* revalidate() returned, after the token's expiry, holds TOKEN_EXPIRED
C22_Witness ==
  /\ calls[1].pc = "bound"
  /\ calls[1].instance.result.valid = TRUE
  /\ calls[1].accessed # Null
  /\ calls[1].accessed.op = "valid"
  /\ calls[1].accessed.out = Value(TRUE)
  /\ calls[2].origin = "revalidate"
  /\ calls[2].pc = "bound"
  /\ calls[2].instance.result.valid = FALSE
  /\ calls[2].instance.result.error.code = "TOKEN_EXPIRED"

(***************************************************************************)
(* C23: on a bound validator the payload accessor throws exactly when the *)
(* captured result is a failure and returns the license otherwise; every  *)
(* other synchronous accessor returns a value for every captured result.  *)
(***************************************************************************)
C23_Accessors ==
  \A c \in CallIds :
    LET call == calls[c] IN
    (call.pc = "bound" /\ call.accessed # Null
       /\ call.accessed.op # "unbound.getExpirationInfo") =>
      IF call.accessed.op = "payload"
      THEN /\ (call.accessed.out.k = "throw") = (call.instance.result.valid = FALSE)
           /\ call.instance.result.valid = TRUE
                => call.accessed.out = Value(call.instance.result.license)
      ELSE call.accessed.out.k = "value"

(***************************************************************************)
(* C26: unbind() on a bound validator returns an unbound validator with   *)
(* the policy of the validator bind() was called on (realm, public key,   *)
(* revocation source, requiredFlags, requiredKind, requiredFeatures,      *)
(* timing, allowNoExpiration), and validate(token) on it returns what     *)
(* validate(token) on the original validator returns.                     *)
(***************************************************************************)
C26_UnbindSamePolicy ==
  [][ calls'[2].origin = "unbind" =>
        /\ SamePolicy(calls'[2].validator, config)
        /\ Finishes(2) =>
             Outcome(calls'[2])
               = AloneOutcome(config, calls'[2].token, calls'[2].list, wallClock) ]_vars

\* the original validator holds a URL and a static list, the validator
\* from unbind() only the URL, and it reports the revocation all the same
C26_Witness ==
  /\ HoldsUrlAndList
  /\ calls[2].origin = "unbind"
  /\ calls[2].validator.revocation = Undef
  /\ calls[2].fetched = "ok"
  /\ Failed(calls[2])
  /\ calls[2].result.error.code = "TOKEN_REVOKED"

\* timing.currentTime of the validator, the wall clock when not given
CallTime(validator) ==
  IF CurrentTimeInjected(validator) THEN Get(validator.timing, "currentTime").n
  ELSE wallClock

\* info describes a token whose exp claim is `exp`, asked about right now
InfoAsOf(info, exp) ==
  IF exp.t = "undefined"
  THEN info.expiresAt = Null /\ info.isExpired = FALSE /\ info.secondsRemaining = Null
  ELSE /\ info.expiresAt = exp
       /\ info.secondsRemaining = Num(exp.n - CallTime(config))
       /\ info.isExpired = (exp.n - CallTime(config) <= 0)

(***************************************************************************)
(* C30: bound getExpirationInfo() returns null whenever the captured      *)
(* result is a failure, TOKEN_EXPIRED included; unbound                   *)
(* getExpirationInfo(token) runs no validation stage and returns info     *)
(* exactly for the tokens whose payload decodes.  Info that is returned   *)
(* has isExpired = (exp - now <= 0) at the time of the call, no clock     *)
(* skew applied.                                                          *)
(***************************************************************************)
C30_ExpirationInfo ==
  [][ \A c \in CallIds :
        LET a == calls'[c].accessed
            captured == calls[c].instance.result
        IN calls'[c].accessed # calls[c].accessed =>
             /\ a.op = "getExpirationInfo" =>
                  IF captured.valid = FALSE THEN a.out = Value(Null)
                  ELSE /\ a.out.k = "value"
                       /\ InfoAsOf(a.out.value, Get(captured.license, "exp"))
             /\ a.op = "unbound.getExpirationInfo" =>
                  /\ calls'[c] = [calls[c] EXCEPT !.accessed = a]
                  /\ remote' = remote
                  /\ (a.out.value = Null) = (decodePayload(calls[c].token) = Undef)
                  /\ a.out.value # Null
                       => InfoAsOf(a.out.value, Get(decodePayload(calls[c].token), "exp")) ]_vars

\* a bound validator whose captured result is a success reports
\* isExpired
C30_Witness ==
  \E c \in CallIds :
    /\ calls[c].pc = "bound"
    /\ calls[c].instance.result.valid = TRUE
    /\ calls[c].accessed # Null
    /\ calls[c].accessed.op = "getExpirationInfo"
    /\ calls[c].accessed.out.value.isExpired = TRUE

====
